---- MODULE Spec2Model ----
(***************************************************************************)
(* Resume analyzer: event-driven analysis orchestration.                   *)
(*                                                                         *)
(* The module holds one state machine per component:                       *)
(*   - the Identifier Allocator (counters + natural-key index),            *)
(*   - the S3 trigger (lambda_handler: batch mode / single mode),          *)
(*   - the Analysis Pipeline Orchestrator (five stages, retries),          *)
(*   - the Read-Model Gateway (GET /api/opportunities/:id/analysis).       *)
(* Each component has its own specification over the shared variables; the *)
(* variables of the other components stay at their initial value.          *)
(***************************************************************************)
EXTENDS Integers, Sequences, FiniteSets, TLC

\* ------------------------------------------------------------------------
\* Bounds of the model
\* ------------------------------------------------------------------------
NumCallers == 3
NumKeys == 2
NumResumes == 2
MaxJdUploads == 2
MaxUploads == 3
MaxRetries == 2
MaxRuns == 2
MaxChats == 4
MaxRanked == 4
MaxJobs == 2
maxAttempts == 3
MaxChecks == 6
MaxTicks == 5
MaxRenders == 2
NumOutageCallers == 2
MaxResultRuns == 3
MaxRollupCandidates == 3
MaxNameLen == 2
MaxUploadCycles == 2
MaxEffects == 3
MaxBulkItems == 3
MaxBulkAdded == 4
maxInjectedTurns == 5

\* ------------------------------------------------------------------------
\* Shared vocabulary
\* ------------------------------------------------------------------------
None == "none"

Namespaces == {"job", "candidate"}
Callers == 1..NumCallers
NaturalKeys == 1..NumKeys

\* S3 trigger: the service-order folders and the files uploaded into them.
Jobs == {"SO-12345", "SO-67890"}
Resumes == 1..NumResumes
JdVersions == 1..MaxJdUploads

VARIABLES
    \* Identifier Allocator
    counter,      \* Counters table: namespace -> last value issued
    keyIndex,     \* natural-key index: namespace -> key -> formatted id or None
    call,         \* per caller: the invocation in progress
    allocLog      \* history: every id minted, as <<namespace, key, id>>, in
                  \* order (key 0: minted by allocate, for no natural key)

VARIABLES
    \* S3 trigger (lambda_handler)
    bucketJd,      \* job -> version of the object in <job>/jd/ (0: no object)
    bucketResumes, \* job -> resumes stored in <job>/resumes/
    events,        \* S3 ObjectCreated events not yet handled: key -> count
    queue,         \* pipeline runs enqueued, not yet started: run -> count
    inflight,      \* runs started: <<run, JD version read>> -> count
    result,        \* job -> resume -> the AnalysisResult stored, or NoResult
    runFailed,     \* job -> some pipeline run of the job has failed
    skipped,       \* job -> resumes whose upload event was a no-op (no JD yet)
    last           \* outcome of the latest lambda_handler invocation

VARIABLES
    \* Analysis Pipeline Orchestrator, one unit of work
    unit,          \* the unit's record: state, progress marker, stage outputs,
                   \* retry attempt, last error, the stage that failed
    calls,         \* history: stage -> inference calls made for it
    lastResponse   \* history: the latest answer of the inference service

allocVars == <<counter, keyIndex, call, allocLog>>

VARIABLES
    \* Read model: candidate rows, analysis objects, one API request
    rows,          \* CandidateAnalysis table: candidate id -> row
    objects,       \* documents bucket: candidate id -> body of analysis.json
    runsDone,      \* candidate id -> pipeline runs that have written a result
    reader,        \* the request in progress: position, rows left, candidates
    response       \* history: payload.candidates of the latest response

VARIABLES
    \* Session/Memory Manager
    sessions,      \* memory store: session id -> turns, oldest first
    sessionOf,     \* history: <<jobId, candidateId, session id>> handed out
    chat,          \* chat request -> its position, session and injection
    added,         \* history: <<session id, turn>> passed to add_turns
    chats          \* chats started

memVars == <<sessions, sessionOf, chat, added, chats>>

VARIABLES
    \* Ranking of one opportunity's candidates
    rankScores,    \* the candidates' overall scores, in creation order
    ranked         \* payload.candidates of the request, once answered

rankVars == <<rankScores, ranked>>

VARIABLES
    \* Opportunity list
    envTable,      \* process.env.OPPORTUNITIES_TABLE ("" when unset)
    jobTable,      \* the JobAnalysis table: whether it exists, its items
    listed         \* history: the latest answer of GET /api/opportunities

listVars == <<envTable, jobTable, listed>>

VARIABLES
    \* Client polling after a resume upload
    uploaded,          \* a resume has been uploaded from the Analysis page
    candidateAppeared, \* the new candidate is in the analysis response
    polling,           \* UploadResume: the state of its usePolling hook
    pendingResume      \* Analysis: the pending-resume loop (setInterval)

pollVars == <<uploaded, candidateAppeared, polling, pendingResume>>

VARIABLES
    \* Backing store of the Identifier Allocator
    storeUp            \* the table store answers requests

outageVars == <<storeUp>>

VARIABLES
    \* Final write of the AnalysisResult
    resultStore,
    runsStarted,
    runsOpen,
    runsDoneOf,
    lastWrite

resultVars == <<resultStore, runsStarted, runsOpen, runsDoneOf, lastWrite>>

VARIABLES
    \* Rollup fields of the opportunity
    jobItem,
    analysed,
    listedJob

rollupVars == <<jobItem, analysed, listedJob>>

VARIABLES
    \* Upload endpoints and the Event Classifier
    presigned,
    classified

classifyVars == <<presigned, classified>>

VARIABLES
    \* UploadResume and Opportunities: upload, processing, notices
    upl,
    unitState,
    jdPage

uploadVars == <<upl, unitState, jdPage>>

VARIABLES
    \* analysis.json of one candidate and the scores returned for it
    ratedObject,
    scoreResponse

scoreVars == <<ratedObject, scoreResponse>>

VARIABLES
    \* usePolling: refs, chains of poll() calls and history
    hook

hookVars == <<hook>>

VARIABLES
    \* BulkUpload: the items, the items of the last render, files added so far
    bulkItems

bulkVars == <<bulkItems>>

pipeVars == <<unit, calls, lastResponse>>

readVars == <<rows, objects, runsDone, reader, response>>

trigVars == <<bucketJd, bucketResumes, events, queue, inflight, result,
              runFailed, skipped, last>>

vars == <<counter, keyIndex, call, allocLog,
          bucketJd, bucketResumes, events, queue, inflight, result,
          runFailed, skipped, last,
          unit, calls, lastResponse,
          rows, objects, runsDone, reader, response,
          sessions, sessionOf, chat, added, chats,
          rankScores, ranked,
          envTable, jobTable, listed,
          uploaded, candidateAppeared, polling, pendingResume,
          storeUp,
          resultStore, runsStarted, runsOpen, runsDoneOf, lastWrite,
          jobItem, analysed, listedJob,
          presigned, classified,
          upl, unitState, jdPage,
          ratedObject, scoreResponse,
          hook,
          bulkItems>>

\* What the steps of one component leave alone.
otherThanAlloc == <<trigVars, pipeVars, readVars, memVars,
                    rankVars, listVars, pollVars, outageVars,
                    resultVars, rollupVars, classifyVars, uploadVars,
                    scoreVars, hookVars, bulkVars>>
otherThanTrigger == <<allocVars, pipeVars, readVars, memVars,
                      rankVars, listVars, pollVars, outageVars,
                      resultVars, rollupVars, classifyVars, uploadVars,
                      scoreVars, hookVars, bulkVars>>
otherThanPipe == <<allocVars, trigVars, readVars, memVars,
                   rankVars, listVars, pollVars, outageVars,
                   resultVars, rollupVars, classifyVars, uploadVars,
                   scoreVars, hookVars, bulkVars>>
otherThanRead == <<allocVars, trigVars, pipeVars, memVars,
                   rankVars, listVars, pollVars, outageVars,
                   resultVars, rollupVars, classifyVars, uploadVars,
                   scoreVars, hookVars, bulkVars>>
otherThanMemory == <<allocVars, trigVars, pipeVars, readVars,
                     rankVars, listVars, pollVars, outageVars,
                     resultVars, rollupVars, classifyVars, uploadVars,
                     scoreVars, hookVars, bulkVars>>
otherThanRank == <<allocVars, trigVars, pipeVars, readVars,
                   memVars, listVars, pollVars, outageVars,
                   resultVars, rollupVars, classifyVars, uploadVars,
                   scoreVars, hookVars, bulkVars>>
otherThanList == <<allocVars, trigVars, pipeVars, readVars,
                   memVars, rankVars, pollVars, outageVars,
                   resultVars, rollupVars, classifyVars, uploadVars,
                   scoreVars, hookVars, bulkVars>>
otherThanPoll == <<allocVars, trigVars, pipeVars, readVars,
                   memVars, rankVars, listVars, outageVars,
                   resultVars, rollupVars, classifyVars, uploadVars,
                   scoreVars, hookVars, bulkVars>>
otherThanOutage == <<allocVars, trigVars, pipeVars, readVars,
                     memVars, rankVars, listVars, pollVars,
                     resultVars, rollupVars, classifyVars, uploadVars,
                     scoreVars, hookVars, bulkVars>>
otherThanResults == <<allocVars, trigVars, pipeVars, readVars,
                      memVars, rankVars, listVars, pollVars,
                      outageVars, rollupVars, classifyVars, uploadVars,
                      scoreVars, hookVars, bulkVars>>
otherThanRollup == <<allocVars, trigVars, pipeVars, readVars,
                     memVars, rankVars, listVars, pollVars,
                     outageVars, resultVars, classifyVars, uploadVars,
                     scoreVars, hookVars, bulkVars>>
otherThanClassify == <<allocVars, trigVars, pipeVars, readVars,
                       memVars, rankVars, listVars, pollVars,
                       outageVars, resultVars, rollupVars, uploadVars,
                       scoreVars, hookVars, bulkVars>>
otherThanUpload == <<allocVars, trigVars, pipeVars, readVars,
                     memVars, rankVars, listVars, pollVars,
                     outageVars, resultVars, rollupVars, classifyVars,
                     scoreVars, hookVars, bulkVars>>
otherThanScore == <<allocVars, trigVars, pipeVars, readVars,
                    memVars, rankVars, listVars, pollVars,
                    outageVars, resultVars, rollupVars, classifyVars,
                    uploadVars, hookVars, bulkVars>>
otherThanHook == <<allocVars, trigVars, pipeVars, readVars,
                   memVars, rankVars, listVars, pollVars,
                   outageVars, resultVars, rollupVars, classifyVars,
                   uploadVars, scoreVars, bulkVars>>
otherThanBulk == <<allocVars, trigVars, pipeVars, readVars,
                   memVars, rankVars, listVars, pollVars,
                   outageVars, resultVars, rollupVars, classifyVars,
                   uploadVars, scoreVars, hookVars>>

\* ------------------------------------------------------------------------
\* Identifier Allocator
\* ------------------------------------------------------------------------

\* Decimal digits of n, most significant first.
RECURSIVE Digits(_)
Digits(n) == IF n < 10 THEN <<n>> ELSE Append(Digits(n \div 10), n % 10)

\* Left-pad a digit sequence with zeros to the given width (never truncates).
RECURSIVE ZeroPad(_, _)
ZeroPad(s, width) == IF Len(s) >= width THEN s ELSE ZeroPad(<<0>> \o s, width)

IdWidth == 6

Prefix(ns) == IF ns = "job" THEN "SO_" ELSE "CAND_"

\* SO_000123 / CAND_000045
FormatId(ns, n) == <<Prefix(ns), ZeroPad(Digits(n), IdWidth)>>

IdleCall == [pc |-> "idle", op |-> None, ns |-> None, key |-> 0,
             hit |-> FALSE, lost |-> FALSE, ret |-> None, err |-> FALSE]

\* The value the atomic read-modify-write leaves in the counter.
IncrementedLost(n) == n
Incremented(n) == n + 1

\* The condition of the conditional write: the natural key has no id yet.
ConditionAlways(ns, k) == TRUE
ConditionHolds(ns, k) == keyIndex[ns][k] = None

\* What a lost conditional write does to the counter: nothing, the increment
\* is part of the same write.
CounterAfterLossBumped(n) == n + 1
CounterAfterLoss(n) == n

\* A caller starts allocate(ns).
BeginAllocate(c, ns) ==
    /\ call[c].pc = "idle"
    /\ call' = [call EXCEPT ![c] = [IdleCall EXCEPT !.pc = "allocating",
                                                    !.op = "allocate",
                                                    !.ns = ns]]
    /\ UNCHANGED <<counter, keyIndex, allocLog>>
    /\ UNCHANGED otherThanAlloc

\* allocate(ns): one atomic increment-and-read of the namespace counter.
Allocate(c) ==
    /\ storeUp
    /\ call[c].pc = "allocating"
    /\ LET ns == call[c].ns
           n  == Incremented(counter[ns])
       IN /\ counter' = [counter EXCEPT ![ns] = n]
          /\ call' = [call EXCEPT ![c].pc = "done",
                                  ![c].ret = FormatId(ns, n)]
          /\ allocLog' = Append(allocLog, <<ns, 0, FormatId(ns, n)>>)
    /\ UNCHANGED keyIndex
    /\ UNCHANGED otherThanAlloc

\* A caller starts resolveOrCreate(ns, key): one delivery of an upload event.
BeginResolve(c, ns, k) ==
    /\ call[c].pc = "idle"
    /\ call' = [call EXCEPT ![c] = [IdleCall EXCEPT !.pc = "lookup",
                                                    !.op = "resolveOrCreate",
                                                    !.ns = ns,
                                                    !.key = k]]
    /\ UNCHANGED <<counter, keyIndex, allocLog>>
    /\ UNCHANGED otherThanAlloc

\* resolveOrCreate, step 1: look the natural key up; a hit returns its id.
Lookup(c) ==
    /\ storeUp
    /\ call[c].pc = "lookup"
    /\ LET ns == call[c].ns
           k  == call[c].key
       IN IF keyIndex[ns][k] # None
          THEN call' = [call EXCEPT ![c].pc = "done",
                                    ![c].hit = TRUE,
                                    ![c].ret = keyIndex[ns][k]]
          ELSE call' = [call EXCEPT ![c].pc = "write"]
    /\ UNCHANGED <<counter, keyIndex, allocLog>>
    /\ UNCHANGED otherThanAlloc

\* resolveOrCreate, step 2: the single conditional write (check-then-set).
\* Won: counter incremented and key -> id stored, in one write.
\* Lost: nothing written, the caller adopts the winner's id, no error.
ConditionalWrite(c) ==
    /\ storeUp
    /\ call[c].pc = "write"
    /\ LET ns == call[c].ns
           k  == call[c].key
           n  == Incremented(counter[ns])
       IN IF ConditionHolds(ns, k)
          THEN /\ counter' = [counter EXCEPT ![ns] = n]
               /\ keyIndex' = [keyIndex EXCEPT ![ns][k] = FormatId(ns, n)]
               /\ call' = [call EXCEPT ![c].pc = "done",
                                       ![c].ret = FormatId(ns, n)]
               /\ allocLog' = Append(allocLog, <<ns, k, FormatId(ns, n)>>)
          ELSE /\ counter' = [counter EXCEPT ![ns] = CounterAfterLoss(@)]
               /\ call' = [call EXCEPT ![c].pc = "done",
                                       ![c].lost = TRUE,
                                       ![c].ret = keyIndex[ns][k]]
               /\ UNCHANGED <<keyIndex, allocLog>>
    /\ UNCHANGED otherThanAlloc

InitAlloc ==
    /\ counter = [ns \in Namespaces |-> 0]
    /\ keyIndex = [ns \in Namespaces |-> [k \in NaturalKeys |-> None]]
    /\ call = [c \in Callers |-> IdleCall]
    /\ allocLog = << >>

NextAlloc ==
    \/ \E c \in Callers, ns \in Namespaces : BeginAllocate(c, ns)
    \/ \E c \in Callers : Allocate(c)
    \/ \E c \in Callers, ns \in Namespaces, k \in NaturalKeys : BeginResolve(c, ns, k)
    \/ \E c \in Callers : Lookup(c)
    \/ \E c \in Callers : ConditionalWrite(c)

\* ------------------------------------------------------------------------
\* S3 trigger: lambda_handler, batch mode and single mode
\* ------------------------------------------------------------------------

JdFile == "job.txt"

\* Object keys, as key.split('/') sees them: <<so_folder, folder_type, filename>>.
JdKey(so) == <<so, "jd", JdFile>>
ResumeKey(so, r) == <<so, "resumes", r>>
ObjectKeys == {JdKey(so) : so \in Jobs}
                  \cup {ResumeKey(so, r) : so \in Jobs, r \in Resumes}

\* A pipeline run: invoke_agentcore(resume, jd).
Run(resumeKey, jdKey) == [resume |-> resumeKey, jd |-> jdKey]
Runs == {Run(ResumeKey(so, r), JdKey(so)) : so \in Jobs, r \in Resumes}

\* The invocations a handler makes: run -> how many times it was invoked.
NoRuns == [run \in Runs |-> 0]
OneRunEach(S) == [run \in Runs |-> IF run \in S THEN 1 ELSE 0]

\* queue with the invocations of a handler added.
Enqueue(qu, invoked) == [run \in Runs |-> qu[run] + invoked[run]]

\* The AnalysisResult of a resume against the content of a job description.
Analyse(resumeKey, jdVersion) == [resume |-> resumeKey, against |-> jdVersion]

\* No object key (Python None) and no AnalysisResult stored.
NoKey == << >>
NoResult == [resume |-> NoKey, against |-> 0]


NoOutcome == [kind |-> None, key |-> NoKey, jdExisted |-> FALSE,
              listed |-> {}, enqueued |-> NoRuns, err |-> FALSE]

\* list_all_resumes(so_folder): every object under <so_folder>/resumes/.
list_unanalysed_resumes(so) ==
    {ResumeKey(so, r) : r \in {x \in bucketResumes[so] : result[so][x] = NoResult}}
list_all_resumes(so) == {ResumeKey(so, r) : r \in bucketResumes[so]}

\* get_jd_for_so(so_folder): the key of the job description, or no key.
get_jd_assumed(so) == JdKey(so)
get_jd_missing(so) == NoKey
get_jd_for_so(so) == IF bucketJd[so] # 0 THEN JdKey(so) ELSE NoKey

\* Uploads made so far (each upload raises one event).
Uploads ==
    LET RECURSIVE Sum(_)
        Sum(S) == IF S = {} THEN 0
                  ELSE LET so == CHOOSE x \in S : TRUE
                       IN bucketJd[so] + Cardinality(bucketResumes[so])
                              + Sum(S \ {so})
    IN Sum(Jobs)

\* A job description is uploaded to <so>/jd/ (first upload or re-upload).
UploadJd(so) ==
    /\ bucketJd[so] < MaxJdUploads
    /\ Uploads < MaxUploads
    /\ bucketJd' = [bucketJd EXCEPT ![so] = @ + 1]
    /\ events' = [events EXCEPT ![JdKey(so)] = @ + 1]
    /\ UNCHANGED <<bucketResumes, queue, inflight, result, runFailed, skipped, last>>
    /\ UNCHANGED otherThanTrigger

\* A resume is uploaded to <so>/resumes/.
UploadResume(so, r) ==
    /\ r \notin bucketResumes[so]
    /\ Uploads < MaxUploads
    /\ bucketResumes' = [bucketResumes EXCEPT ![so] = @ \cup {r}]
    /\ events' = [events EXCEPT ![ResumeKey(so, r)] = @ + 1]
    /\ UNCHANGED <<bucketJd, queue, inflight, result, runFailed, skipped, last>>
    /\ UNCHANGED otherThanTrigger

\* lambda_handler, folder_type == 'jd': process ALL resumes of the folder.
HandleJdEvent(key) ==
    /\ events[key] > 0
    /\ key[2] = "jd"
    /\ LET so_folder == key[1]
           resumes   == list_all_resumes(so_folder)
           invoked   == OneRunEach({Run(resume, key) : resume \in resumes})
       IN /\ queue' = Enqueue(queue, invoked)
          /\ last' = [kind |-> "jd", key |-> key, jdExisted |-> TRUE,
                      listed |-> {ResumeKey(so_folder, r) :
                                     r \in bucketResumes[so_folder]},
                      enqueued |-> invoked, err |-> FALSE]
    /\ events' = [events EXCEPT ![key] = @ - 1]
    /\ UNCHANGED <<bucketJd, bucketResumes, inflight, result, runFailed, skipped>>
    /\ UNCHANGED otherThanTrigger

\* lambda_handler, folder_type == 'resumes': process THIS resume, if a job
\* description exists; otherwise nothing is done and nothing is raised.
HandleResumeEvent(key) ==
    /\ events[key] > 0
    /\ key[2] = "resumes"
    /\ LET so_folder == key[1]
           jd        == get_jd_for_so(so_folder)
       IN IF jd # NoKey
          THEN /\ queue' = Enqueue(queue, OneRunEach({Run(key, jd)}))
               /\ last' = [kind |-> "resumes", key |-> key,
                           jdExisted |-> bucketJd[so_folder] # 0,
                           listed |-> {}, enqueued |-> OneRunEach({Run(key, jd)}),
                           err |-> FALSE]
               /\ UNCHANGED skipped
          ELSE /\ last' = [kind |-> "resumes", key |-> key,
                           jdExisted |-> bucketJd[so_folder] # 0,
                           listed |-> {}, enqueued |-> NoRuns, err |-> FALSE]
               /\ skipped' = [skipped EXCEPT ![so_folder] = @ \cup {key[3]}]
               /\ UNCHANGED queue
    /\ events' = [events EXCEPT ![key] = @ - 1]
    /\ UNCHANGED <<bucketJd, bucketResumes, inflight, result, runFailed>>
    /\ UNCHANGED otherThanTrigger

\* A pipeline run starts: the agent reads the resume and the job description
\* object it was given (the content stored at that moment).
RunStarts(run) ==
    /\ queue[run] > 0
    /\ queue' = [queue EXCEPT ![run] = @ - 1]
    /\ inflight' = [inflight EXCEPT ![<<run, bucketJd[run.jd[1]]>>] = @ + 1]
    /\ UNCHANGED <<bucketJd, bucketResumes, events, result, runFailed, skipped, last>>
    /\ UNCHANGED otherThanTrigger

\* A pipeline run completes: it stores the AnalysisResult of the resume
\* against the job description it read, replacing any earlier one.
RunCompletes(run, v) ==
    /\ inflight[<<run, v>>] > 0
    /\ LET so == run.resume[1]
           r  == run.resume[3]
       IN result' = [result EXCEPT ![so][r] = Analyse(run.resume, v)]
    /\ inflight' = [inflight EXCEPT ![<<run, v>>] = @ - 1]
    /\ UNCHANGED <<bucketJd, bucketResumes, events, queue, runFailed, skipped, last>>
    /\ UNCHANGED otherThanTrigger

\* A pipeline run fails: nothing is stored.
RunFails(run, v) ==
    /\ inflight[<<run, v>>] > 0
    /\ inflight' = [inflight EXCEPT ![<<run, v>>] = @ - 1]
    /\ runFailed' = [runFailed EXCEPT ![run.resume[1]] = TRUE]
    /\ UNCHANGED <<bucketJd, bucketResumes, events, queue, result, skipped, last>>
    /\ UNCHANGED otherThanTrigger

InitTrigger ==
    /\ bucketJd = [so \in Jobs |-> 0]
    /\ bucketResumes = [so \in Jobs |-> {}]
    /\ events = [k \in ObjectKeys |-> 0]
    /\ queue = [run \in Runs |-> 0]
    /\ inflight = [x \in Runs \X (0..MaxJdUploads) |-> 0]
    /\ result = [so \in Jobs |-> [r \in Resumes |-> NoResult]]
    /\ runFailed = [so \in Jobs |-> FALSE]
    /\ skipped = [so \in Jobs |-> {}]
    /\ last = NoOutcome

NextTrigger ==
    \/ \E so \in Jobs : UploadJd(so)
    \/ \E so \in Jobs, r \in Resumes : UploadResume(so, r)
    \/ \E key \in ObjectKeys : HandleJdEvent(key)
    \/ \E key \in ObjectKeys : HandleResumeEvent(key)
    \/ \E run \in Runs : RunStarts(run)
    \/ \E run \in Runs, v \in 0..MaxJdUploads : RunCompletes(run, v)
    \/ \E run \in Runs, v \in 0..MaxJdUploads : RunFails(run, v)

\* ------------------------------------------------------------------------
\* Analysis Pipeline Orchestrator: one unit of work through the five stages
\* ------------------------------------------------------------------------

\* The tool chain, in order.
Stages == <<"extract_resume_info", "analyze_job_requirements",
            "evaluate_candidate_fit", "identify_gaps", "rate_candidate">>
NumStages == Len(Stages)
StageIx == 1..NumStages

\* Completion markers: Markers[k + 1] is recorded when stage k completes.
Markers == <<"RECEIVED", "PARSED", "REQUIREMENTS_EXTRACTED", "EVALUATED",
             "GAPS_IDENTIFIED", "RATED">>
Marker(k) == Markers[k + 1]

\* The stage that runs next from a progress marker (0: none).
NextStageSkippingGaps(marker) ==
    IF marker = "EVALUATED" THEN 5
    ELSE IF \E k \in StageIx : Markers[k] = marker
         THEN CHOOSE k \in StageIx : Markers[k] = marker
         ELSE 0
NextStage(marker) ==
    IF \E k \in StageIx : Markers[k] = marker
    THEN CHOOSE k \in StageIx : Markers[k] = marker
    ELSE 0

\* Answers of the inference service to one call.
Errors == {"timeout", "rate_limit", "malformed_json", "schema_mismatch"}

\* Transient failures are retried inside the stage; a response that does not
\* parse into the stage's schema is not.
TransientErrors == {"timeout", "rate_limit", "malformed_json"}
IsTransientAny(e) == TRUE
IsTransient(e) == e \in TransientErrors

\* Another attempt is allowed after `attempt` retries.
CanRetryOffByOne(attempt) == attempt <= MaxRetries
CanRetry(attempt) == attempt < MaxRetries

NoOutput == [stage |-> 0, valid |-> FALSE]
StageOutput(k) == [stage |-> k, valid |-> TRUE]
Placeholder(k) == [stage |-> k, valid |-> FALSE]

NewUnit == [state |-> "RECEIVED", progress |-> "RECEIVED",
            output |-> [k \in StageIx |-> NoOutput],
            attempt |-> 0, lastError |-> None, failedAt |-> 0,
            written |-> FALSE]

\* Stage k has failed for good with error e: the unit becomes FAILED, the
\* error is recorded, the progress marker and the outputs stay as they are.
FailUnitWithPlaceholder(u, k, e) ==
    [u EXCEPT !.state = Marker(k), !.progress = Marker(k),
              !.output[k] = Placeholder(k), !.attempt = 0,
              !.lastError = e, !.failedAt = k]
FailUnit(u, k, e) ==
    [u EXCEPT !.state = "FAILED", !.lastError = e, !.failedAt = k]

Running == unit.state \notin {"RATED", "COMPLETE", "FAILED"}

\* The inference call of the current stage returns a response that matches
\* the stage's schema: its output is kept and the marker recorded.
StageSucceeds ==
    /\ Running
    /\ LET k == NextStage(unit.state)
       IN /\ unit' = [unit EXCEPT !.state = Marker(k), !.progress = Marker(k),
                                  !.output[k] = StageOutput(k), !.attempt = 0]
          /\ calls' = [calls EXCEPT ![k] = @ + 1]
    /\ lastResponse' = "ok"
    /\ UNCHANGED otherThanPipe

\* The inference call of the current stage fails with error e: a transient
\* error is retried while retries are left, anything else fails the unit.
StageErrors(e) ==
    /\ Running
    /\ LET k == NextStage(unit.state)
       IN /\ unit' = IF IsTransient(e) /\ CanRetry(unit.attempt)
                     THEN [unit EXCEPT !.attempt = @ + 1, !.lastError = e]
                     ELSE FailUnit(unit, k, e)
          /\ calls' = [calls EXCEPT ![k] = @ + 1]
    /\ lastResponse' = e
    /\ UNCHANGED otherThanPipe

\* After the rating stage: one atomic write of the AnalysisResult.
Complete ==
    /\ unit.state = "RATED"
    /\ unit' = [unit EXCEPT !.state = "COMPLETE", !.written = TRUE]
    /\ UNCHANGED <<calls, lastResponse>>
    /\ UNCHANGED otherThanPipe

InitPipe ==
    /\ unit = NewUnit
    /\ calls = [k \in StageIx |-> 0]
    /\ lastResponse = None

NextPipe ==
    \/ StageSucceeds
    \/ \E e \in Errors : StageErrors(e)
    \/ Complete

\* ------------------------------------------------------------------------
\* Read model: GET /api/opportunities/:id/analysis against the pipeline's
\* writes of one opportunity
\* ------------------------------------------------------------------------

BUCKET_NAME == "documents-bucket"
OpportunityId == "SO_000001"
Candidates == <<"CAND_000001", "CAND_000002">>
CandidateIds == {Candidates[i] : i \in DOMAIN Candidates}
Versions == 1..MaxRuns

\* A JSON object is a function from its keys to their values; null and {}
\* have no keys.
EmptyObject == [k \in {} |-> 0]
Has(obj, k) == k \in DOMAIN obj

\* analysis.json of the v-th completed run for a candidate: the candidate
\* block with the scores, and the lists and recommendation that rest on them.
AnalysisDocument(cid, v) ==
    [candidate |-> [id |-> cid, name |-> cid, level |-> "Senior",
                    experienceYears |-> 10 + v,
                    overallScore |-> 60 + 10 * v, coreScore |-> 50 + 10 * v,
                    domainScore |-> 40 + 10 * v, softScore |-> 70 + v],
     coreSkills |-> <<[name |-> "AWS", run |-> v]>>,
     domainSkills |-> <<[skill |-> "Process Automation", run |-> v]>>,
     evidenceSnippets |-> <<[snippet |-> "evidence", run |-> v]>>,
     gaps |-> <<[gap |-> "Kubernetes", run |-> v]>>,
     recommendation |-> IF v % 2 = 1 THEN "Proceed to interview"
                                     ELSE "Strong hire"]

\* The keys of analysis.json in the order they are written out.
DocumentKeys == <<"candidate", "coreSkills", "domainSkills",
                  "evidenceSnippets", "gaps", "recommendation">>

\* A body is the text of an object: its members in order, and whether the
\* closing brace has been reached.
NoBody == [members |-> << >>, closed |-> FALSE]
Serialize(doc) ==
    [members |-> [i \in 1..Len(DocumentKeys) |->
                     <<DocumentKeys[i], doc[DocumentKeys[i]]>>],
     closed |-> TRUE]
Truncate(body, n) == [members |-> SubSeq(body.members, 1, n), closed |-> FALSE]

\* The object read so far, whether or not the text is complete.
MembersRead(body) ==
    [k \in {body.members[i][1] : i \in 1..Len(body.members)} |->
        LET i == CHOOSE j \in 1..Len(body.members) : body.members[j][1] = k
        IN body.members[i][2]]

\* JSON.parse(body || '{}'): the empty text gives {}, a complete text its
\* object, anything else throws.
Throws == [threw |-> TRUE, value |-> EmptyObject]
Returns(v) == [threw |-> FALSE, value |-> v]
JsonParseLenient(body) == Returns(MembersRead(body))
JsonParse(body) ==
    IF body = NoBody THEN Returns(EmptyObject)
    ELSE IF body.closed THEN Returns(MembersRead(body))
    ELSE Throws

\* S3 URIs and parseS3Uri.
NoUri == [scheme |-> "", bucket |-> "", key |-> ""]
AnalysisUri(cid) == [scheme |-> "s3", bucket |-> BUCKET_NAME, key |-> cid]
parseS3Uri(uri) ==
    IF uri.scheme = "s3" /\ uri.bucket # "" /\ uri.key # ""
    THEN [bucket |-> uri.bucket, key |-> uri.key]
    ELSE [bucket |-> BUCKET_NAME, key |-> ""]

\* CandidateAnalysis rows.
NoRow == [present |-> FALSE, candidateId |-> "", analysisS3Key |-> NoUri,
          s3Key |-> NoUri]
NewRow(cid) == [present |-> TRUE, candidateId |-> cid,
                analysisS3Key |-> NoUri, s3Key |-> NoUri]

\* row.analysisS3Key ?? row.s3Key
S3UriOfLegacyOnly(row) == row.s3Key
S3UriOf(row) == IF row.analysisS3Key # NoUri THEN row.analysisS3Key
                ELSE row.s3Key

\* The candidate pushed for a row that has no S3 URI.
ZeroedCandidate(row) ==
    [id |-> row.candidateId, name |-> row.candidateId, level |-> "",
     experienceYears |-> 0, overallScore |-> 0, coreScore |-> 0,
     domainScore |-> 0, softScore |-> 0,
     coreSkills |-> << >>, domainSkills |-> << >>,
     evidenceSnippets |-> << >>, gaps |-> << >>, recommendation |-> ""]

\* obj?.k ?? default
Get(obj, k, default) == IF Has(obj, k) THEN obj[k] ELSE default

\* The mapping of a row and its analysis (EmptyObject for null) to the
\* candidate of the UI format.
MapCandidate(row, analysis) ==
    LET c == Get(analysis, "candidate", EmptyObject)
    IN [id |-> Get(c, "id", row.candidateId),
        name |-> Get(c, "name", row.candidateId),
        level |-> Get(c, "level", ""),
        experienceYears |-> Get(c, "experienceYears", 0),
        overallScore |-> Get(c, "overallScore", 0),
        coreScore |-> Get(c, "coreScore", 0),
        domainScore |-> Get(c, "domainScore", 0),
        softScore |-> Get(c, "softScore", 0),
        coreSkills |-> Get(analysis, "coreSkills", << >>),
        domainSkills |-> Get(analysis, "domainSkills", << >>),
        evidenceSnippets |-> Get(analysis, "evidenceSnippets", << >>),
        gaps |-> Get(analysis, "gaps", << >>),
        recommendation |-> Get(analysis, "recommendation", "")]

\* The try block around GetObject and JSON.parse: analysis stays null when
\* the fetch or the parse throws.
FetchAnalysisPartial(fetched) ==
    IF fetched.threw THEN EmptyObject ELSE MembersRead(fetched.body)
FetchAnalysis(fetched) ==
    IF fetched.threw THEN EmptyObject
    ELSE LET parsed == JsonParse(fetched.body)
         IN IF parsed.threw THEN EmptyObject ELSE parsed.value

\* What GetObject and transformToString can give for a key: the stored text,
\* a text cut short, or an error.
FetchOutcomes(key) ==
    IF key \in CandidateIds /\ objects[key] # NoBody
    THEN {[threw |-> FALSE, body |-> objects[key]], [threw |-> TRUE, body |-> NoBody]}
         \cup {[threw |-> FALSE, body |-> Truncate(objects[key], n)] :
                  n \in 0..(Len(objects[key].members) - 1)}
    ELSE {[threw |-> TRUE, body |-> NoBody]}

\* candidates.sort((a, b) => b.overallScore - a.overallScore): stable,
\* descending.
RECURSIVE InsertByScoreTiesFirst(_, _)
InsertByScoreTiesFirst(sorted, e) ==
    IF Len(sorted) = 0 THEN <<e>>
    ELSE IF Head(sorted).overallScore > e.overallScore
         THEN <<Head(sorted)>> \o InsertByScoreTiesFirst(Tail(sorted), e)
         ELSE <<e>> \o sorted
RECURSIVE InsertByScore(_, _)
InsertByScore(sorted, e) ==
    IF Len(sorted) = 0 THEN <<e>>
    ELSE IF Head(sorted).overallScore >= e.overallScore
         THEN <<Head(sorted)>> \o InsertByScore(Tail(sorted), e)
         ELSE <<e>> \o sorted
RECURSIVE SortByScore(_)
SortByScore(cs) ==
    IF Len(cs) = 0 THEN << >>
    ELSE InsertByScore(SortByScore(SubSeq(cs, 1, Len(cs) - 1)), cs[Len(cs)])

\* MOCK_ANALYSIS.candidates
MOCK_CANDIDATES ==
    <<[id |-> "c1", name |-> "Ramesh Kumar", level |-> "Senior", experienceYears |-> 14,
       overallScore |-> 85, coreScore |-> 90, domainScore |-> 85, softScore |-> 85],
      [id |-> "c2", name |-> "Ishan Kishan", level |-> "Senior", experienceYears |-> 11,
       overallScore |-> 80, coreScore |-> 80, domainScore |-> 65, softScore |-> 70],
      [id |-> "c3", name |-> "Axar Patel", level |-> "Senior", experienceYears |-> 10,
       overallScore |-> 75, coreScore |-> 80, domainScore |-> 50, softScore |-> 75],
      [id |-> "c4", name |-> "Shubham Gill", level |-> "Mid", experienceYears |-> 6,
       overallScore |-> 68, coreScore |-> 70, domainScore |-> 65, softScore |-> 75]>>

\* The rows a Query returns, in sort-key order.
QueryRows ==
    SelectSeq([i \in DOMAIN Candidates |-> rows[Candidates[i]]],
              LAMBDA row : row.present)

IdleReader == [pc |-> "idle", pending |-> << >>, candidates |-> << >>]

\* The candidate row is created when the upload is classified, before any
\* analysis exists.
RegisterCandidate(cid) ==
    /\ ~rows[cid].present
    /\ rows' = [rows EXCEPT ![cid] = NewRow(cid)]
    /\ UNCHANGED <<objects, runsDone, reader, response>>
    /\ UNCHANGED otherThanRead

\* A completed run writes analysis.json in one PUT, replacing the object of
\* an earlier run.
WriteAnalysis(cid) ==
    /\ runsDone[cid] < MaxRuns
    /\ runsDone' = [runsDone EXCEPT ![cid] = @ + 1]
    /\ objects' = [objects EXCEPT
                      ![cid] = Serialize(AnalysisDocument(cid, runsDone[cid] + 1))]
    /\ UNCHANGED <<rows, reader, response>>
    /\ UNCHANGED otherThanRead

\* Once analysis.json is there, the row gets its analysisS3Key.
WriteCandidateRow(cid) ==
    /\ objects[cid] # NoBody
    /\ rows[cid].analysisS3Key = NoUri
    /\ rows' = [rows EXCEPT ![cid] =
                   [NewRow(cid) EXCEPT !.analysisS3Key = AnalysisUri(cid)]]
    /\ UNCHANGED <<objects, runsDone, reader, response>>
    /\ UNCHANGED otherThanRead

\* Step 2 of the request: query the candidate rows of the opportunity.
ReaderQuery ==
    /\ reader.pc = "idle"
    /\ reader' = [pc |-> "rows", pending |-> QueryRows,
                  candidates |-> << >>]
    /\ UNCHANGED <<rows, objects, runsDone, response>>
    /\ UNCHANGED otherThanRead

\* One turn of the loop over the rows: fetch and map the row's analysis.
ReaderRow ==
    /\ reader.pc = "rows"
    /\ Len(reader.pending) > 0
    /\ LET row == Head(reader.pending)
           s3Uri == S3UriOf(row)
           key == parseS3Uri(s3Uri).key
       IN \E fetched \in FetchOutcomes(key) :
            LET analysis == IF key # "" THEN FetchAnalysis(fetched)
                            ELSE EmptyObject
                mapped == IF s3Uri = NoUri THEN ZeroedCandidate(row)
                          ELSE MapCandidate(row, analysis)
            IN reader' = [reader EXCEPT !.pending = Tail(@),
                                        !.candidates = Append(@, mapped)]
    /\ UNCHANGED <<rows, objects, runsDone, response>>
    /\ UNCHANGED otherThanRead

\* After the loop: rank the candidates and answer, with the mock candidates
\* when there are none.
ReaderRespond ==
    /\ reader.pc = "rows"
    /\ Len(reader.pending) = 0
    /\ LET candidates == SortByScore(reader.candidates)
       IN response' = IF Len(candidates) > 0 THEN candidates
                      ELSE MOCK_CANDIDATES
    /\ reader' = IdleReader
    /\ UNCHANGED <<rows, objects, runsDone>>
    /\ UNCHANGED otherThanRead

\* The turn of the loop for the row of cid in which GetObject gives the
\* whole stored text.
ReadsStoredAnalysis(cid) ==
    /\ ReaderRow
    /\ Head(reader.pending).candidateId = cid
    /\ reader'.candidates[Len(reader'.candidates)].overallScore # 0

InitRead ==
    /\ rows = [cid \in CandidateIds |-> NoRow]
    /\ objects = [cid \in CandidateIds |-> NoBody]
    /\ runsDone = [cid \in CandidateIds |-> 0]
    /\ reader = IdleReader
    /\ response = << >>

NextRead ==
    \/ \E cid \in CandidateIds : RegisterCandidate(cid)
    \/ \E cid \in CandidateIds : WriteAnalysis(cid)
    \/ \E cid \in CandidateIds : WriteCandidateRow(cid)
    \/ ReaderQuery
    \/ ReaderRow
    \/ ReaderRespond

\* ------------------------------------------------------------------------
\* Session/Memory Manager: chat requests against the short-term memory
\* ------------------------------------------------------------------------

MemJobs == {"SO_000001", "SO_000002"}
MemCandidates == {"CAND_000001", "CAND_000002"}
\* The pairs that chats are held about.
ChatPairs == {<<"SO_000001", "CAND_000001">>, <<"SO_000001", "CAND_000002">>,
              <<"SO_000002", "CAND_000001">>}
ChatRequests == {"r1", "r2"}
Roles == {"user", "agent"}

Min(a, b) == IF a < b THEN a ELSE b

\* The text that is hashed: job_description_id + "_" + candidate_id.
SessionKeyJobOnly(jobId, candidateId) == jobId
SessionKey(jobId, candidateId) == jobId \o "_" \o candidateId

\* MD5(...)[:16], taken as free of collisions on the keys in use.
Digest16(text) == "md5:" \o text

get_session_id(jobId, candidateId) == Digest16(SessionKey(jobId, candidateId))

\* get_last_k_turns(k): the k most recent turns, oldest first.
RECURSIVE Reversed(_)
Reversed(turns) ==
    IF Len(turns) = 0 THEN << >>
    ELSE Append(Reversed(Tail(turns)), Head(turns))
get_last_k_turns_newest_first(turns, k) ==
    Reversed(SubSeq(turns, Len(turns) - Min(Len(turns), k) + 1, Len(turns)))
get_last_k_turns(turns, k) ==
    SubSeq(turns, Len(turns) - Min(Len(turns), k) + 1, Len(turns))

\* add_turns: the store appends the turn to the session's events; what the
\* request loaded earlier plays no part.
add_turns_window(stored, loaded, turn) ==
    get_last_k_turns(Append(stored, turn), maxInjectedTurns)
add_turns_from_loaded(stored, loaded, turn) == Append(loaded, turn)
add_turns(stored, loaded, turn) == Append(stored, turn)

\* A turn: who spoke, and the text (told apart by the chat it belongs to).
Turn(role, chatNo) == [role |-> role, text |-> chatNo]

IdleChat == [pc |-> "idle", no |-> 0, jobId |-> "", candidateId |-> "",
             sessionId |-> "", loaded |-> << >>,
             sizeAtInject |-> 0, injected |-> << >>]

\* The store with the session in it, created empty when it was not there.
WithSession(store, sid) ==
    IF sid \in DOMAIN store THEN store ELSE store @@ (sid :> << >>)

\* get_or_create_session: compute the session id, reuse the session or
\* create it empty.
GetOrCreateSession(r, jobId, candidateId) ==
    /\ chat[r].pc = "idle"
    /\ chats < MaxChats
    /\ chats' = chats + 1
    /\ LET sid == get_session_id(jobId, candidateId)
       IN /\ sessions' = WithSession(sessions, sid)
          /\ chat' = [chat EXCEPT ![r] =
                        [IdleChat EXCEPT !.pc = "init", !.no = chats + 1,
                                         !.jobId = jobId,
                                         !.candidateId = candidateId,
                                         !.sessionId = sid,
                                         !.loaded = sessions'[sid]]]
          /\ sessionOf' = sessionOf \cup {<<jobId, candidateId, sid>>}
    /\ UNCHANGED added
    /\ UNCHANGED otherThanMemory

\* on_agent_initialized: the last turns go into the system prompt.
InjectContext(r) ==
    /\ chat[r].pc = "init"
    /\ LET sid == chat[r].sessionId
       IN chat' = [chat EXCEPT
                     ![r].pc = "user",
                     ![r].sizeAtInject = Len(sessions[sid]),
                     ![r].injected = get_last_k_turns(sessions[sid],
                                                      maxInjectedTurns)]
    /\ UNCHANGED <<sessions, sessionOf, chats, added>>
    /\ UNCHANGED otherThanMemory

\* on_message_added for the user's message, then for the agent's answer.
AddTurn(r, role) ==
    /\ chat[r].pc = role
    /\ LET sid == chat[r].sessionId
           turn == Turn(role, chat[r].no)
       IN /\ sessions' = [sessions EXCEPT
                             ![sid] = add_turns(@, chat[r].loaded, turn)]
          /\ added' = added \cup {<<sid, turn>>}
    /\ chat' = [chat EXCEPT ![r] = IF role = "user"
                                   THEN [@ EXCEPT !.pc = "agent"]
                                   ELSE IdleChat]
    /\ UNCHANGED <<sessionOf, chats>>
    /\ UNCHANGED otherThanMemory

InitMemory ==
    /\ sessions = << >>
    /\ sessionOf = {}
    /\ chat = [r \in ChatRequests |-> IdleChat]
    /\ chats = 0
    /\ added = {}

NextMemory ==
    \/ \E r \in ChatRequests, pair \in ChatPairs :
          GetOrCreateSession(r, pair[1], pair[2])
    \/ \E r \in ChatRequests : InjectContext(r)
    \/ \E r \in ChatRequests, role \in Roles : AddTurn(r, role)

\* ------------------------------------------------------------------------
\* Ranking: GET /api/opportunities/:id/analysis over candidates with given
\* overall scores
\* ------------------------------------------------------------------------

\* Overall scores a candidate can have; 0 is a candidate without analysis.
RankScoreValues == {0, 50, 70, 90}
\* The i-th candidate created gets the i-th id of the sequence.
RankId(i) == FormatId("candidate", i)
RankRow(i) == [NewRow(RankId(i)) EXCEPT !.analysisS3Key = AnalysisUri(RankId(i))]

\* The analysis of a candidate with the given overall score; none for 0.
RankAnalysis(i, score) ==
    IF score = 0 THEN EmptyObject
    ELSE [candidate |-> [id |-> RankId(i), overallScore |-> score]]

NotRanked == [asked |-> FALSE, scores |-> << >>, candidates |-> << >>]

\* A candidate is created after those that exist, with its overall score.
CreateCandidate(score) ==
    /\ Len(rankScores) < MaxRanked
    /\ rankScores' = Append(rankScores, score)
    /\ UNCHANGED ranked
    /\ UNCHANGED otherThanRank

\* One request: the rows come back in creation order, each is mapped, the
\* list is sorted and put in the payload.
GetJobAnalysis ==
    /\ LET candidates ==
              [i \in 1..Len(rankScores) |->
                  MapCandidate(RankRow(i), RankAnalysis(i, rankScores[i]))]
           sorted == SortByScore(candidates)
       IN ranked' = [asked |-> TRUE, scores |-> rankScores,
                     candidates |-> IF Len(sorted) > 0 THEN sorted
                                    ELSE MOCK_CANDIDATES]
    /\ UNCHANGED rankScores
    /\ UNCHANGED otherThanRank

InitRank ==
    /\ rankScores = << >>
    /\ ranked = NotRanked

NextRank ==
    \/ \E score \in RankScoreValues : CreateCandidate(score)
    \/ GetJobAnalysis

\* ------------------------------------------------------------------------
\* Opportunity list: GET /api/opportunities
\* ------------------------------------------------------------------------

\* The table name the server falls back on, and the one it uses.
DEFAULT_OPPORTUNITIES_TABLE == "JobAnalysis-agentcore"
OPPORTUNITIES_TABLE ==
    IF envTable # "" THEN envTable ELSE DEFAULT_OPPORTUNITIES_TABLE

NullScore == -1

MOCK_OPPORTUNITIES ==
    <<[id |-> "opp-1", title |-> "Devops Architect", status |-> "analyzed",
       candidatesCount |-> 4, topScore |-> 85],
      [id |-> "opp-2", title |-> "AI Engineer", status |-> "progress",
       candidatesCount |-> 3, topScore |-> 82],
      [id |-> "opp-3", title |-> "Java Architect", status |-> "new",
       candidatesCount |-> 0, topScore |-> NullScore],
      [id |-> "opp-4", title |-> "Data Engineer", status |-> "new",
       candidatesCount |-> 0, topScore |-> NullScore],
      [id |-> "opp-5", title |-> "Cloud Security Engineer", status |-> "closed",
       candidatesCount |-> 6, topScore |-> 91]>>

\* Items the trigger can have written: a bare one, and one with its title,
\* status and rollup fields.
JobItemKinds == {"bare", "full"}
JobIds == <<"SO_000001", "SO_000002", "SO_000003", "SO_000004">>
JobItem(n, kind) ==
    IF kind = "bare" THEN [jobDescriptionId |-> JobIds[n]]
    ELSE [jobDescriptionId |-> JobIds[n],
          title |-> "Devops Architect", status |-> "ACTIVE",
          candidatesCount |-> n, topScore |-> 80 + n]

\* toLowerCase on the status values in use.
ToLowerCase(text) ==
    CASE text = "ACTIVE" -> "active"
      [] text = "New" -> "new"
      [] OTHER -> text

\* The summary that the handler makes of one item.
JobSummary(item) ==
    LET status == ToLowerCase(Get(item, "status", "new"))
    IN [id |-> Get(item, "jobDescriptionId", ""),
        title |-> Get(item, "title", "N/A"),
        status |-> IF status = "active" THEN "active"
                   ELSE IF status # "" THEN status ELSE "new",
        candidatesCount |-> Get(item, "candidatesCount", 0),
        topScore |-> Get(item, "topScore", NullScore)]

JobSummaries(items) == [i \in 1..Len(items) |-> JobSummary(items[i])]

\* The body of the answer, given how the Scan went.
ListBody(scanThrew, items) ==
    IF OPPORTUNITIES_TABLE = "" THEN MOCK_OPPORTUNITIES
    ELSE IF scanThrew THEN MOCK_OPPORTUNITIES
    ELSE IF Len(JobSummaries(items)) > 0 THEN JobSummaries(items)
    ELSE MOCK_OPPORTUNITIES

NotListed == [asked |-> FALSE, env |-> "", exists |-> FALSE, threw |-> FALSE,
              items |-> << >>, body |-> << >>]

\* The server is started with or without OPPORTUNITIES_TABLE.
SetEnv(name) ==
    /\ envTable # name
    /\ envTable' = name
    /\ UNCHANGED <<jobTable, listed>>
    /\ UNCHANGED otherThanList

\* The storage stack creates the table, empty.
CreateTable ==
    /\ ~jobTable.exists
    /\ jobTable' = [exists |-> TRUE, items |-> << >>]
    /\ UNCHANGED <<envTable, listed>>
    /\ UNCHANGED otherThanList

\* The trigger writes the item of a new job description.
PutJobItem(kind) ==
    /\ jobTable.exists
    /\ Len(jobTable.items) < MaxJobs
    /\ jobTable' = [jobTable EXCEPT
                       !.items = Append(@, JobItem(Len(@) + 1, kind))]
    /\ UNCHANGED <<envTable, listed>>
    /\ UNCHANGED otherThanList

\* GET /api/opportunities: the Scan throws when the table is not there, and
\* may throw when it is.
ListJobs(scanFails) ==
    /\ LET threw == scanFails \/ ~jobTable.exists
       IN listed' = [asked |-> TRUE, env |-> envTable,
                     exists |-> jobTable.exists, threw |-> threw,
                     items |-> jobTable.items,
                     body |-> ListBody(threw, jobTable.items)]
    /\ UNCHANGED <<envTable, jobTable>>
    /\ UNCHANGED otherThanList

InitList ==
    /\ envTable = ""
    /\ jobTable = [exists |-> FALSE, items |-> << >>]
    /\ listed = NotListed

NextList ==
    \/ \E name \in {"", DEFAULT_OPPORTUNITIES_TABLE} : SetEnv(name)
    \/ CreateTable
    \/ \E kind \in JobItemKinds : PutJobItem(kind)
    \/ \E scanFails \in BOOLEAN : ListJobs(scanFails)

\* ------------------------------------------------------------------------
\* Client polling after a resume upload (UploadResume + Analysis page)
\* ------------------------------------------------------------------------
\* usePolling keeps one attempt counter (attemptsRef) and one timer handle
\* (timeoutRef) per component.  Its effect depends on checkFn, onSuccess and
\* onTimeout, which the callers pass as closures created during render, so
\* the effect is torn down and run again at every render of the caller.
\* The Analysis page runs a second loop with setInterval while a resume is
\* pending.

IdlePolling ==
    [enabled |-> FALSE,   \* the caller's processing flag
     attempts |-> 0,      \* attemptsRef.current
     timer |-> FALSE,     \* the timer held in timeoutRef.current is pending
     stray |-> 0,         \* pending timers whose handle was overwritten
     awaiting |-> 0,      \* poll() calls waiting for checkFn
     checks |-> 0,        \* history: checkFn calls since the upload
     timeouts |-> 0,      \* history: onTimeout calls since the upload
     renders |-> 0]       \* history: renders while processing

NoPendingResume == [pending |-> FALSE, ticks |-> 0]

\* useEffect cleanup: clearTimeout(timeoutRef.current).
PollCleanup(p) == [p EXCEPT !.timer = FALSE]

\* poll(): the step up to the await of checkFn, or onTimeout.
\* onTimeout is setProcessing(false): the caller renders with enabled false,
\* the cleanup runs and the effect resets the counter.
PollStep(p) ==
    IF p.attempts >= maxAttempts
    THEN IF p.enabled
         THEN [PollCleanup(p) EXCEPT !.timeouts = @ + 1, !.enabled = FALSE,
                                     !.attempts = 0]
         ELSE [p EXCEPT !.timeouts = @ + 1]
    ELSE [p EXCEPT !.attempts = @ + 1, !.awaiting = @ + 1,
                   !.checks = @ + 1]

\* The body of the effect: reset the counter, and start polling when enabled.
PollEffect(p) ==
    IF ~p.enabled
    THEN [p EXCEPT !.attempts = 0]
    ELSE PollStep([p EXCEPT !.attempts = 0])

\* timeoutRef.current = setTimeout(poll, interval): the handle of a timer
\* still pending is lost.
PollSchedule(p) ==
    [p EXCEPT !.stray = IF p.timer THEN @ + 1 ELSE @, !.timer = TRUE]

\* doUpload, after the upload to S3: setProcessing(true), onProcessingStart.
DoUpload ==
    /\ ~uploaded
    /\ uploaded' = TRUE
    /\ polling' = PollEffect([polling EXCEPT !.enabled = TRUE])
    /\ pendingResume' = [pending |-> TRUE, ticks |-> 0]
    /\ UNCHANGED candidateAppeared
    /\ UNCHANGED otherThanPoll

\* The pipeline stores the candidate; nothing guarantees that it ever does.
CandidateAppears ==
    /\ uploaded
    /\ ~candidateAppeared
    /\ candidateAppeared' = TRUE
    /\ UNCHANGED <<uploaded, polling, pendingResume>>
    /\ UNCHANGED otherThanPoll

\* checkForNewCandidate answers one poll() call.  getAnalysis may fail
\* (checkFn then answers false).
CheckAnswers(requestFails) ==
    /\ polling.awaiting > 0
    /\ LET p == [polling EXCEPT !.awaiting = @ - 1]
           found == candidateAppeared /\ ~requestFails
       IN IF found
          THEN \* onCandidateReady, then onSuccess: setProcessing(false)
               /\ polling' = PollEffect(PollCleanup(
                                 [p EXCEPT !.enabled = FALSE]))
               /\ pendingResume' = [pendingResume EXCEPT !.pending = FALSE]
          ELSE /\ polling' = PollSchedule(p)
               /\ UNCHANGED pendingResume
    /\ UNCHANGED <<uploaded, candidateAppeared>>
    /\ UNCHANGED otherThanPoll

\* A timer set by poll() fires: the one in timeoutRef, or a stray one.
TimerFires(fromRef) ==
    /\ IF fromRef THEN polling.timer ELSE polling.stray > 0
    /\ polling.attempts < maxAttempts => polling.checks < MaxChecks
    /\ polling' = PollStep(IF fromRef
                           THEN [polling EXCEPT !.timer = FALSE]
                           ELSE [polling EXCEPT !.stray = @ - 1])
    /\ UNCHANGED <<uploaded, candidateAppeared, pendingResume>>
    /\ UNCHANGED otherThanPoll

\* The caller renders again while processing (any state change of the page):
\* checkFn, onSuccess and onTimeout are new closures, so the effect's cleanup
\* runs and the effect runs again.
Render ==
    /\ polling.enabled
    /\ polling.renders < MaxRenders
    /\ polling.checks < MaxChecks
    /\ polling' = PollEffect(PollCleanup(
                      [polling EXCEPT !.renders = @ + 1]))
    /\ UNCHANGED <<uploaded, candidateAppeared, pendingResume>>
    /\ UNCHANGED otherThanPoll

\* Analysis page: one tick of setInterval(..., 2500) while
\* pendingResumeFileName is set; the loop ends when the candidate is found.
IntervalTick(requestFails) ==
    /\ pendingResume.pending
    /\ pendingResume.ticks < MaxTicks
    /\ pendingResume' =
           [pending |-> ~(candidateAppeared /\ ~requestFails),
            ticks |-> pendingResume.ticks + 1]
    /\ UNCHANGED <<uploaded, candidateAppeared, polling>>
    /\ UNCHANGED otherThanPoll

InitPoll ==
    /\ uploaded = FALSE
    /\ candidateAppeared = FALSE
    /\ polling = IdlePolling
    /\ pendingResume = NoPendingResume

NextPoll ==
    \/ DoUpload
    \/ CandidateAppears
    \/ \E requestFails \in BOOLEAN : CheckAnswers(requestFails)
    \/ \E fromRef \in BOOLEAN : TimerFires(fromRef)
    \/ Render
    \/ \E requestFails \in BOOLEAN : IntervalTick(requestFails)

\* ------------------------------------------------------------------------
\* Identifier Allocator while the backing store is unavailable
\* ------------------------------------------------------------------------
OutageCallers == 1..NumOutageCallers

\* The steps of a call that send a request to the store.
StoreSteps == {"allocating", "lookup", "write"}

\* The step a delivery of the call's event starts at.
FirstStep(op) == IF op = "allocate" THEN "allocating" ELSE "lookup"

\* BackingStoreUnavailable: the call ends with the error, nothing returned;
\* the event (operation, namespace, natural key) stays with the invoker.
FailedSilently(c) == [call[c] EXCEPT !.pc = "done"]
FailedFast(c) == [call[c] EXCEPT !.pc = "failed", !.err = TRUE]

\* The store stops answering / answers again.
StoreGoesDown ==
    /\ storeUp
    /\ storeUp' = FALSE
    /\ UNCHANGED allocVars
    /\ UNCHANGED otherThanOutage

StoreComesBack ==
    /\ ~storeUp
    /\ storeUp' = TRUE
    /\ UNCHANGED allocVars
    /\ UNCHANGED otherThanOutage

\* A request of the call meets the outage: fail fast, no write.
StoreUnavailable(c) ==
    /\ ~storeUp
    /\ call[c].pc \in StoreSteps
    /\ call' = [call EXCEPT ![c] = FailedFast(c)]
    /\ UNCHANGED <<counter, keyIndex, allocLog>>
    /\ UNCHANGED otherThanAlloc

\* The invoking trigger mechanism delivers the failed event again.
Redeliver(c) ==
    /\ call[c].pc = "failed"
    /\ call' = [call EXCEPT ![c] = [IdleCall EXCEPT
                                       !.pc = FirstStep(call[c].op),
                                       !.op = call[c].op,
                                       !.ns = call[c].ns,
                                       !.key = call[c].key]]
    /\ UNCHANGED <<counter, keyIndex, allocLog>>
    /\ UNCHANGED otherThanAlloc

InitOutage == storeUp = TRUE

NextOutage ==
    \/ \E c \in OutageCallers, ns \in Namespaces : BeginAllocate(c, ns)
    \/ \E c \in OutageCallers : Allocate(c)
    \/ \E c \in OutageCallers, ns \in Namespaces, k \in NaturalKeys :
           BeginResolve(c, ns, k)
    \/ \E c \in OutageCallers : Lookup(c)
    \/ \E c \in OutageCallers : ConditionalWrite(c)
    \/ StoreGoesDown
    \/ StoreComesBack
    \/ \E c \in OutageCallers : StoreUnavailable(c)
    \/ \E c \in OutageCallers : Redeliver(c)

\* ------------------------------------------------------------------------
\* Final write of the AnalysisResult: several runs for one candidate
\* ------------------------------------------------------------------------
\* The logical entities: the candidates of the opportunity.
ResultEntities == CandidateIds
ResultRuns == 1..MaxResultRuns

\* File names a writer could choose per run.
RunFileNames == <<"analysis-1.json", "analysis-2.json", "analysis-3.json",
                  "analysis-4.json", "analysis-5.json">>

\* opportunities/<jobId>/candidates/<candidateId>/analysis.json
ResultKeyPerRun(jobId, candidateId, run) ==
    [jobId |-> jobId, candidateId |-> candidateId,
     file |-> RunFileNames[run]]
ResultKey(jobId, candidateId, run) ==
    [jobId |-> jobId, candidateId |-> candidateId, file |-> "analysis.json"]

\* PutObject: the object resultStore under the key is replaced.
PutObject(bucket, key, body) ==
    {o \in bucket : o.key # key} \cup {[key |-> key, body |-> body]}

\* The objects under opportunities/<jobId>/candidates/<candidateId>/.
ResultsOf(jobId, candidateId) ==
    {o \in resultStore : o.key.jobId = jobId /\ o.key.candidateId = candidateId}

\* A pipeline run for the candidate starts (upload, re-upload, duplicate
\* event or batch re-run); runs are not deduplicated.
StartRun(cid) ==
    /\ runsStarted[cid] < MaxResultRuns
    /\ runsStarted' = [runsStarted EXCEPT ![cid] = @ + 1]
    /\ runsOpen' = [runsOpen EXCEPT ![cid] = @ \cup {runsStarted[cid] + 1}]
    /\ UNCHANGED <<resultStore, runsDoneOf, lastWrite>>
    /\ UNCHANGED otherThanResults

\* A run finishes, in any order: one write of its result.
FinishRun(cid, run) ==
    /\ run \in runsOpen[cid]
    /\ resultStore' = PutObject(resultStore, ResultKey(OpportunityId, cid, run),
                           AnalysisDocument(cid, run))
    /\ runsOpen' = [runsOpen EXCEPT ![cid] = @ \ {run}]
    /\ runsDoneOf' = [runsDoneOf EXCEPT ![cid] = @ \cup {run}]
    /\ lastWrite' = [lastWrite EXCEPT ![cid] = run]
    /\ UNCHANGED runsStarted
    /\ UNCHANGED otherThanResults

InitResults ==
    /\ resultStore = {}
    /\ runsStarted = [cid \in ResultEntities |-> 0]
    /\ runsOpen = [cid \in ResultEntities |-> {}]
    /\ runsDoneOf = [cid \in ResultEntities |-> {}]
    /\ lastWrite = [cid \in ResultEntities |-> 0]

NextResults ==
    \/ \E cid \in ResultEntities : StartRun(cid)
    \/ \E cid \in ResultEntities, run \in ResultRuns : FinishRun(cid, run)

\* ------------------------------------------------------------------------
\* Rollup fields of an opportunity: what the trigger writes, what the list
\* endpoint reads
\* ------------------------------------------------------------------------
RollupCandidates == {RankId(i) : i \in 1..MaxRollupCandidates}
NotAnalysed == -1

\* handle_root_jd_upload: the JobAnalysis item of a new opportunity.
JobAnalysisItem(jobId) ==
    [jobDescriptionId |-> jobId, title |-> "Devops Architect",
     client |-> "Rabo Bank", keywords |-> <<"AWS", "IaC">>,
     summary |-> "summary"]

\* The results stored for the opportunity: how many, and the best score.
StoredCount == Cardinality({c \in RollupCandidates : analysed[c] # NotAnalysed})
StoredTop ==
    IF StoredCount = 0 THEN NullScore
    ELSE CHOOSE s \in {analysed[c] : c \in RollupCandidates} :
             \A c \in RollupCandidates : analysed[c] <= s

\* Step 1.6: the job description is parsed and its item written.
handle_root_jd_upload ==
    /\ ~Has(jobItem, "jobDescriptionId")
    /\ jobItem' = JobAnalysisItem(OpportunityId)
    /\ UNCHANGED <<analysed, listedJob>>
    /\ UNCHANGED otherThanRollup

\* Step 3.7: the resume of a candidate is analysed; analysis.json and the
\* CandidateAnalysis row (jobDescriptionId, candidateId, analysisS3Key) are
\* written.
handle_candidates_upload(cid, score) ==
    /\ Has(jobItem, "jobDescriptionId")
    /\ analysed[cid] = NotAnalysed
    /\ analysed' = [analysed EXCEPT ![cid] = score]
    /\ UNCHANGED <<jobItem, listedJob>>
    /\ UNCHANGED otherThanRollup

\* GET /api/opportunities: the summary made of the opportunity's item.
ListOpportunity ==
    /\ Has(jobItem, "jobDescriptionId")
    /\ listedJob' = JobSummary(jobItem)
    /\ UNCHANGED <<jobItem, analysed>>
    /\ UNCHANGED otherThanRollup

InitRollup ==
    /\ jobItem = EmptyObject
    /\ analysed = [c \in RollupCandidates |-> NotAnalysed]
    /\ listedJob = JobSummary(EmptyObject)

NextRollup ==
    \/ handle_root_jd_upload
    \/ \E cid \in RollupCandidates, score \in RankScoreValues :
           handle_candidates_upload(cid, score)
    \/ ListOpportunity

\* ------------------------------------------------------------------------
\* Upload endpoints (presigned keys) and the Event Classifier
\* ------------------------------------------------------------------------
\* A text is a sequence of pieces: single characters, or the literal words
\* of the key templates.  "#" stands for any character outside
\* [a-zA-Z0-9._-] other than "/".
NameChars == {"a", "b", "/", "#"}
SafeChars == {"a", "b", "_"}
Names == UNION {[1..n -> NameChars] : n \in 0..MaxNameLen}

\* filename.replace(/[^a-zA-Z0-9._-]/g, '_')
SafeName(filename) ==
    [i \in 1..Len(filename) |->
        IF filename[i] \in SafeChars THEN filename[i] ELSE "_"]

\* `opportunities/${safeName}`
JdUploadKey(filename) == <<"opportunities", "/">> \o SafeName(filename)

\* `opportunities/${opportunityId}/candidates/${safeName}`
ResumeUploadKeySafeId(opportunityId, filename) ==
    <<"opportunities", "/">> \o SafeName(opportunityId)
        \o <<"/", "candidates", "/">> \o SafeName(filename)
ResumeUploadKey(opportunityId, filename) ==
    <<"opportunities", "/">> \o opportunityId
        \o <<"/", "candidates", "/">> \o SafeName(filename)

\* key.split('/'): the segments between the slashes, empty ones included.
RECURSIVE SplitPath(_)
SplitPath(key) ==
    IF \A i \in 1..Len(key) : key[i] # "/" THEN <<key>>
    ELSE LET i == CHOOSE j \in 1..Len(key) :
                      key[j] = "/" /\ \A h \in 1..(j - 1) : key[h] # "/"
         IN <<SubSeq(key, 1, i - 1)>> \o SplitPath(SubSeq(key, i + 1, Len(key)))

\* classify(objectKey): the mode and the ids, from the path structure alone.
Unclassified == [mode |-> "NONE", jobId |-> << >>, candidateId |-> << >>]
classify(key) ==
    LET parts == SplitPath(key)
        n == Len(parts)
    IN IF n < 2 \/ parts[1] # <<"opportunities">> \/ parts[n] = << >>
       THEN Unclassified
       ELSE IF n = 2
       THEN [mode |-> "JOB_ROOT", jobId |-> << >>, candidateId |-> << >>]
       ELSE IF n = 4 /\ parts[3] = <<"jd">>
       THEN [mode |-> "JOB_FOLDER", jobId |-> parts[2], candidateId |-> << >>]
       ELSE IF n = 4 /\ parts[3] = <<"candidates">>
       THEN [mode |-> "CANDIDATE", jobId |-> parts[2], candidateId |-> << >>]
       ELSE IF n = 5 /\ parts[3] = <<"candidates">>
       THEN [mode |-> "CANDIDATE", jobId |-> parts[2],
             candidateId |-> parts[4]]
       ELSE Unclassified

NoPresign == [endpoint |-> None, status |-> 0, opportunityId |-> << >>,
              filename |-> << >>, key |-> << >>]

\* POST /api/opportunities/upload-jd
PostUploadJd(filename) ==
    /\ presigned' =
           IF filename = << >>
           THEN [NoPresign EXCEPT !.endpoint = "upload-jd", !.status = 400]
           ELSE [endpoint |-> "upload-jd", status |-> 200,
                 opportunityId |-> << >>, filename |-> filename,
                 key |-> JdUploadKey(filename)]
    /\ classified' = Unclassified
    /\ UNCHANGED otherThanClassify

\* POST /api/upload-url
PostUploadUrl(opportunityId, filename) ==
    /\ presigned' =
           IF opportunityId = << >> \/ filename = << >>
           THEN [NoPresign EXCEPT !.endpoint = "upload-url", !.status = 400]
           ELSE [endpoint |-> "upload-url", status |-> 200,
                 opportunityId |-> opportunityId, filename |-> filename,
                 key |-> ResumeUploadKey(opportunityId, filename)]
    /\ classified' = Unclassified
    /\ UNCHANGED otherThanClassify

\* The client puts the file under the key; the creation event is classified.
ClassifyEvent ==
    /\ presigned.status = 200
    /\ classified = Unclassified
    /\ classified' = classify(presigned.key)
    /\ classified' # Unclassified
    /\ UNCHANGED presigned
    /\ UNCHANGED otherThanClassify

InitClassify ==
    /\ presigned = NoPresign
    /\ classified = Unclassified

NextClassify ==
    \/ \E filename \in Names : PostUploadJd(filename)
    \/ \E opportunityId, filename \in Names :
           PostUploadUrl(opportunityId, filename)
    \/ ClassifyEvent

\* ------------------------------------------------------------------------
\* UploadResume and Opportunities: upload, processing state and notices
\* ------------------------------------------------------------------------
\* The polling of each component is taken as one chain of usePolling: a
\* check per attempt, onSuccess when the check finds the record, onTimeout
\* once maxAttempts checks have been made.

IdleUpload ==
    [uploading |-> FALSE, processing |-> FALSE,
     error |-> None,      \* None, "validation", "upload", "timeout"
     success |-> None,    \* None, "analyzing", "analyzed", "longer"
     putting |-> 0,       \* doUpload calls waiting for the upload to S3
     attempts |-> 0,      \* attemptsRef.current
     clearDue |-> 0,      \* setTimeout(() => setSuccess(null)) pending
     started |-> 0]       \* history: uploads begun

IdleJd ==
    [processingJd |-> FALSE,
     message |-> None,    \* jdMessage.type: None, "info", "success", "error"
     error |-> FALSE,     \* the page's error banner is set
     attempts |-> 0,
     refreshDue |-> 0,    \* refreshList calls not yet answered
     started |-> 0]

\* doUpload up to the first await.
doUpload(u, valid) ==
    IF ~valid
    THEN [u EXCEPT !.error = "validation", !.success = None]
    ELSE [u EXCEPT !.error = None, !.success = None, !.uploading = TRUE,
                   !.processing = FALSE, !.attempts = 0,
                   !.putting = @ + 1, !.started = @ + 1]

\* UploadResume, onTimeout / onSuccess of its usePolling call.
onTimeoutAsError(u) ==
    [u EXCEPT !.processing = FALSE, !.error = "timeout", !.attempts = 0]
onTimeout(u) ==
    [u EXCEPT !.processing = FALSE, !.success = "longer", !.attempts = 0,
              !.clearDue = @ + 1]
onSuccess(u) ==
    [u EXCEPT !.processing = FALSE, !.success = "analyzed", !.attempts = 0,
              !.clearDue = @ + 1]

\* A file is dropped on the upload zone: onDrop calls doUpload.
OnDrop(valid) ==
    /\ upl.started < MaxUploadCycles
    /\ upl' = doUpload(upl, valid)
    /\ UNCHANGED <<unitState, jdPage>>
    /\ UNCHANGED otherThanUpload

\* A file is chosen in the file dialog: the input is disabled while
\* uploading, and the card opens the dialog unless uploading.
OnFileChange(valid) ==
    /\ ~upl.uploading
    /\ upl.started < MaxUploadCycles
    /\ upl' = doUpload(upl, valid)
    /\ UNCHANGED <<unitState, jdPage>>
    /\ UNCHANGED otherThanUpload

\* getUploadUrl and uploadToS3 settle: processing starts, or the upload
\* failed.
UploadSettles(ok) ==
    /\ upl.putting > 0
    /\ IF ok
       THEN /\ upl' = [upl EXCEPT !.putting = @ - 1, !.uploading = FALSE,
                                  !.processing = TRUE,
                                  !.success = "analyzing"]
            /\ unitState' = "running"
       ELSE /\ upl' = [upl EXCEPT !.putting = @ - 1, !.uploading = FALSE,
                                  !.processing = FALSE, !.attempts = 0,
                                  !.error = "upload"]
            /\ UNCHANGED unitState
    /\ UNCHANGED jdPage
    /\ UNCHANGED otherThanUpload

\* The pipeline run of the uploaded resume ends.
UnitCompletes ==
    /\ unitState = "running"
    /\ unitState' = "complete"
    /\ UNCHANGED <<upl, jdPage>>
    /\ UNCHANGED otherThanUpload

UnitFails ==
    /\ unitState = "running"
    /\ unitState' = "failed"
    /\ UNCHANGED <<upl, jdPage>>
    /\ UNCHANGED otherThanUpload

\* One poll() of UploadResume: checkForNewCandidate finds the candidate
\* when its run is complete and the request goes through.
PollResume(requestFails) ==
    /\ upl.processing
    /\ upl' = IF upl.attempts >= maxAttempts THEN onTimeout(upl)
              ELSE IF unitState = "complete" /\ ~requestFails
              THEN onSuccess(upl)
              ELSE [upl EXCEPT !.attempts = @ + 1]
    /\ UNCHANGED <<unitState, jdPage>>
    /\ UNCHANGED otherThanUpload

\* setTimeout(() => setSuccess(null), ...)
ClearSuccess ==
    /\ upl.clearDue > 0
    /\ upl' = [upl EXCEPT !.clearDue = @ - 1, !.success = None]
    /\ UNCHANGED <<unitState, jdPage>>
    /\ UNCHANGED otherThanUpload

\* Opportunities: a job description has been uploaded; refreshList is
\* called at once.
JdUploaded ==
    /\ ~jdPage.processingJd
    /\ jdPage.started < MaxUploadCycles
    /\ jdPage' = [jdPage EXCEPT !.processingJd = TRUE, !.message = "info",
                        !.attempts = 0, !.refreshDue = @ + 1,
                        !.started = @ + 1]
    /\ UNCHANGED <<upl, unitState>>
    /\ UNCHANGED otherThanUpload

\* One poll() of Opportunities.
PollJd(found) ==
    /\ jdPage.processingJd
    /\ jdPage' = IF jdPage.attempts >= maxAttempts
             THEN [jdPage EXCEPT !.processingJd = FALSE, !.message = "info",
                             !.attempts = 0, !.refreshDue = @ + 1]
             ELSE IF found
             THEN [jdPage EXCEPT !.processingJd = FALSE, !.message = "success",
                             !.attempts = 0]
             ELSE [jdPage EXCEPT !.attempts = @ + 1]
    /\ UNCHANGED <<upl, unitState>>
    /\ UNCHANGED otherThanUpload

\* refreshList is answered, or the request fails.
RefreshList(requestFails) ==
    /\ jdPage.refreshDue > 0
    /\ jdPage' = [jdPage EXCEPT !.refreshDue = @ - 1,
                        !.error = IF requestFails THEN TRUE ELSE @]
    /\ UNCHANGED <<upl, unitState>>
    /\ UNCHANGED otherThanUpload

InitUpload ==
    /\ upl = IdleUpload
    /\ unitState = "none"
    /\ jdPage = IdleJd

NextUpload ==
    \/ \E valid \in BOOLEAN : OnDrop(valid)
    \/ \E valid \in BOOLEAN : OnFileChange(valid)
    \/ \E ok \in BOOLEAN : UploadSettles(ok)
    \/ UnitCompletes
    \/ UnitFails
    \/ \E requestFails \in BOOLEAN : PollResume(requestFails)
    \/ ClearSuccess
    \/ JdUploaded
    \/ \E found \in BOOLEAN : PollJd(found)
    \/ \E requestFails \in BOOLEAN : RefreshList(requestFails)

\* ------------------------------------------------------------------------
\* The scores of analysis.json on their way through the read model
\* ------------------------------------------------------------------------
\* What the rating stage can write for a score: values of the 1-5 scale, of
\* the 0-100 scale, and values outside both.
RatingOutputs == {-1, 4, 101}

ScoredCandidate == Candidates[1]

\* analysis.json with the four scores as the rating stage produced them.
RatedDocument(overall, core, domain, soft) ==
    [AnalysisDocument(ScoredCandidate, 1) EXCEPT
        !.candidate = [@ EXCEPT !.overallScore = overall, !.coreScore = core,
                                !.domainScore = domain, !.softScore = soft]]

\* The agent stores the analysis of the candidate.
RateCandidate(overall, core, domain, soft) ==
    /\ ratedObject' = Serialize(RatedDocument(overall, core, domain, soft))
    /\ UNCHANGED scoreResponse
    /\ UNCHANGED otherThanScore

\* GET /api/opportunities/:id/analysis for the candidate's row: the object
\* is fetched, parsed and mapped.
GetAnalysisScores ==
    /\ ratedObject # NoBody
    /\ \E fetched \in {[threw |-> FALSE, body |-> ratedObject],
                       [threw |-> TRUE, body |-> NoBody]} :
          scoreResponse' =
              <<MapCandidate([NewRow(ScoredCandidate) EXCEPT
                                 !.analysisS3Key = AnalysisUri(ScoredCandidate)],
                             FetchAnalysis(fetched))>>
    /\ UNCHANGED ratedObject
    /\ UNCHANGED otherThanScore

InitScore ==
    /\ ratedObject = NoBody
    /\ scoreResponse = << >>

NextScore ==
    \/ \E overall, core, domain, soft \in RatingOutputs :
           RateCandidate(overall, core, domain, soft)
    \/ GetAnalysisScores

\* ------------------------------------------------------------------------
\* usePolling: the chains of poll() calls that the runs of its effect start
\* ------------------------------------------------------------------------
\* Every run of the effect with enabled true starts a chain: poll() calls
\* checkFn, and when the answer is false sets a timer for the next poll().
\* A chain is waiting for checkFn, waiting for its timer, or over.  The
\* counter attemptsRef and the handle timeoutRef are shared by all chains.
Effects == 1..MaxEffects

IdleHook ==
    [mounted |-> TRUE,
     enabled |-> FALSE,
     run |-> 0,           \* runs of the effect with enabled true so far
     attempts |-> 0,      \* attemptsRef.current
     timeoutRef |-> 0,    \* the chain whose timer handle timeoutRef holds
     chains |-> [g \in Effects |-> "none"],
                          \* "none", "awaiting", "timer", "over"
     calls |-> 0,         \* history: callbacks since enabled turned true
     lateChecks |-> 0,    \* history: checkFn calls of a chain torn down
     lateCalls |-> 0]     \* history: callbacks of a chain torn down

\* The chain of the effect that is in force, 0 when there is none.
CurrentChain(h) == IF h.mounted /\ h.enabled THEN h.run ELSE 0

\* The cleanup of the effect: clearTimeout(timeoutRef.current).
cleanup(h) ==
    IF h.timeoutRef # 0 /\ h.chains[h.timeoutRef] = "timer"
    THEN [h EXCEPT !.chains[h.timeoutRef] = "over"]
    ELSE h

\* poll() of chain g up to its await, with the caller's onTimeout:
\* setProcessing(false), which has no effect once unmounted.
poll(h, g) ==
    LET late == IF g = CurrentChain(h) THEN 0 ELSE 1
    IN IF h.attempts >= maxAttempts
       THEN LET called == [h EXCEPT !.chains[g] = "over",
                                    !.calls = @ + 1,
                                    !.lateCalls = @ + late]
            IN IF called.mounted /\ called.enabled
               THEN [cleanup(called) EXCEPT !.enabled = FALSE,
                                            !.attempts = 0]
               ELSE called
       ELSE [h EXCEPT !.attempts = @ + 1, !.chains[g] = "awaiting",
                      !.lateChecks = @ + late]

\* The body of the effect.
effect(h) ==
    IF ~h.enabled
    THEN [h EXCEPT !.attempts = 0]
    ELSE LET started == [h EXCEPT !.attempts = 0, !.run = @ + 1]
         IN poll(started, started.run)

\* The caller turns enabled on: setProcessing(true).
Enable ==
    /\ hook.mounted /\ ~hook.enabled
    /\ hook.run < MaxEffects
    /\ hook' = effect([cleanup(hook) EXCEPT !.enabled = TRUE, !.calls = 0])
    /\ UNCHANGED otherThanHook

\* The caller renders while enabled: checkFn, onSuccess and onTimeout are
\* new closures, the inputs of the effect change.
InputsChange ==
    /\ hook.mounted /\ hook.enabled
    /\ hook.run < MaxEffects
    /\ hook' = effect(cleanup(hook))
    /\ UNCHANGED otherThanHook

\* The caller turns enabled off by itself (doUpload: setProcessing(false)).
Disable ==
    /\ hook.mounted /\ hook.enabled
    /\ hook' = effect([cleanup(hook) EXCEPT !.enabled = FALSE])
    /\ UNCHANGED otherThanHook

\* The component unmounts.
Unmount ==
    /\ hook.mounted
    /\ hook' = [cleanup(hook) EXCEPT !.mounted = FALSE]
    /\ UNCHANGED otherThanHook

\* checkFn answers the poll() of chain g: onSuccess, or the next timer.  A
\* rejected checkFn sets the timer as a false answer does.
CheckFnAnswers(g, answer) ==
    /\ hook.chains[g] = "awaiting"
    /\ LET late == IF g = CurrentChain(hook) THEN 0 ELSE 1
       IN IF answer = "true"
          THEN LET called == [hook EXCEPT !.chains[g] = "over",
                                          !.calls = @ + 1,
                                          !.lateCalls = @ + late]
               IN hook' = IF called.mounted /\ called.enabled
                          THEN effect([cleanup(called) EXCEPT
                                          !.enabled = FALSE])
                          ELSE called
          ELSE hook' = [hook EXCEPT !.chains[g] = "timer",
                                    !.timeoutRef = g]
    /\ UNCHANGED otherThanHook

\* The timer of chain g fires: poll().
PollTimerFires(g) ==
    /\ hook.chains[g] = "timer"
    /\ hook' = poll(hook, g)
    /\ UNCHANGED otherThanHook

InitHook == hook = IdleHook

NextHook ==
    \/ Enable
    \/ InputsChange
    \/ Disable
    \/ Unmount
    \/ \E g \in Effects, answer \in {"true", "false", "throws"} :
           CheckFnAnswers(g, answer)
    \/ \E g \in Effects : PollTimerFires(g)

\* ------------------------------------------------------------------------
\* BulkUpload: the list of files and their upload names
\* ------------------------------------------------------------------------
\* A file name is a stem, the " (n)" suffixes that follow it and an
\* extension: "a (2).pdf" is the stem "a" with the suffix 2.
BulkFileName(stem, suffixes, ext) ==
    [stem |-> stem, suffixes |-> suffixes, ext |-> ext]

\* The names of the files the user picks.
BulkFileNames ==
    {BulkFileName("a", << >>, ".pdf"), BulkFileName("a", <<2>>, ".pdf"),
     BulkFileName("b", << >>, "")}

\* `${base} (${n})${ext}`
Suffixed(fileName, k) ==
    [fileName EXCEPT !.suffixes = Append(@, k)]

\* uniqueFilename(name, existing): the name itself, or the first of
\* "base (2)ext", "base (3)ext", ... that is not in existing.
RECURSIVE FirstFree(_, _, _)
FirstFree(fileName, k, existing) ==
    IF Suffixed(fileName, k) \in existing
    THEN FirstFree(fileName, k + 1, existing)
    ELSE Suffixed(fileName, k)
uniqueFilename(fileName, existing) ==
    IF fileName \in existing THEN FirstFree(fileName, 2, existing)
    ELSE fileName

UploadNames(list) == {list[i].uploadName : i \in DOMAIN list}

\* The loop of addFiles over the file list: existing grows with each name
\* handed out.
RECURSIVE NamedItems(_, _, _)
NamedItems(fileList, existing, firstId) ==
    IF Len(fileList) = 0 THEN << >>
    ELSE LET uploadName == uniqueFilename(Head(fileList), existing)
         IN <<[id |-> firstId, file |-> Head(fileList),
               uploadName |-> uploadName]>>
            \o NamedItems(Tail(fileList), existing \cup {uploadName},
                          firstId + 1)

\* addFiles(fileList): existing is taken from the items of the render the
\* callback was made in; the new items are appended to the current list.
addFiles(fileList) ==
    /\ Len(bulkItems.list) + Len(fileList) <= MaxBulkItems
    /\ bulkItems.added + Len(fileList) <= MaxBulkAdded
    /\ LET existing == UploadNames(bulkItems.rendered)
           next == NamedItems(fileList, existing, bulkItems.added + 1)
       IN bulkItems' = [bulkItems EXCEPT !.list = @ \o next,
                                         !.added = @ + Len(fileList)]
    /\ UNCHANGED otherThanBulk

\* removeItem(id)
removeItem(id) ==
    /\ \E i \in DOMAIN bulkItems.list : bulkItems.list[i].id = id
    /\ bulkItems' = [bulkItems EXCEPT
                        !.list = SelectSeq(@, LAMBDA item : item.id # id)]
    /\ UNCHANGED otherThanBulk

\* The component renders: addFiles is made again over the current items.
RenderBulk ==
    /\ bulkItems.rendered # bulkItems.list
    /\ bulkItems' = [bulkItems EXCEPT !.rendered = bulkItems.list]
    /\ UNCHANGED otherThanBulk

InitBulk ==
    bulkItems = [list |-> << >>, rendered |-> << >>, added |-> 0]

NextBulk ==
    \/ \E file \in BulkFileNames : addFiles(<<file>>)
    \/ \E file, other \in BulkFileNames : addFiles(<<file, other>>)
    \/ \E id \in 1..MaxBulkAdded : removeItem(id)
    \/ RenderBulk

Init == InitAlloc /\ InitTrigger /\ InitPipe /\ InitRead /\ InitMemory
        /\ InitRank /\ InitList /\ InitPoll /\ InitOutage /\ InitResults /\ InitRollup /\ InitClassify /\ InitUpload /\ InitScore /\ InitHook /\ InitBulk

SpecAlloc == Init /\ [][NextAlloc]_vars

SpecTrigger == Init /\ [][NextTrigger]_vars

SpecPipe == Init /\ [][NextPipe]_vars

SpecRead == Init /\ [][NextRead]_vars

\* A client that keeps polling: every request it sends is answered, it sends
\* the next one, and the read of an object that is stored does not fail or
\* come back cut short for ever.
FairPolling ==
    /\ WF_vars(ReaderQuery)
    /\ WF_vars(ReaderRow)
    /\ WF_vars(ReaderRespond)
    /\ \A cid \in CandidateIds : SF_vars(ReadsStoredAnalysis(cid))

SpecReadFair == Init /\ [][NextRead]_vars /\ FairPolling

SpecMemory == Init /\ [][NextMemory]_vars

SpecRank == Init /\ [][NextRank]_vars

SpecList == Init /\ [][NextList]_vars

SpecPoll == Init /\ [][NextPoll]_vars

SpecOutage == Init /\ [][NextOutage]_vars

SpecResults == Init /\ [][NextResults]_vars

\* Every upload is handled and every request of the list is answered.
SpecRollup == Init /\ [][NextRollup]_vars /\ WF_vars(NextRollup)

SpecClassify == Init /\ [][NextClassify]_vars

SpecUpload == Init /\ [][NextUpload]_vars

SpecScore == Init /\ [][NextScore]_vars

SpecHook == Init /\ [][NextHook]_vars

SpecBulk == Init /\ [][NextBulk]_vars

\* Positions of allocLog that minted an id in ns for natural key k.
MintsFor(ns, k) ==
    {i \in DOMAIN allocLog : allocLog[i][1] = ns /\ allocLog[i][2] = k}

\* Positions of allocLog that minted an id in ns.
MintsIn(ns) == {i \in DOMAIN allocLog : allocLog[i][1] = ns}

Resolved(c) == call[c].pc = "done" /\ call[c].op = "resolveOrCreate"

Allocated(c) == call[c].pc = "done" /\ call[c].op = "allocate"

\* C1: duplicate delivery of a natural key, one delivery after the other:
\* every later resolveOrCreate (its lookup finds the key) returns the id the
\* first delivery minted, and no second id is ever minted for the key.
C1_DuplicateDeliverySameId ==
    /\ \A ns \in Namespaces, k \in NaturalKeys : Cardinality(MintsFor(ns, k)) <= 1
    /\ \A c \in Callers :
          (Resolved(c) /\ call[c].hit) =>
              \E i \in MintsFor(call[c].ns, call[c].key) :
                  /\ call[c].ret = allocLog[i][3]
                  /\ MintsFor(call[c].ns, call[c].key) = {i}

\* A later delivery has returned after the first one minted the id.
C1_Witness ==
    \E c, d \in Callers :
        /\ c # d
        /\ Resolved(c) /\ Resolved(d)
        /\ call[c].ns = call[d].ns /\ call[c].key = call[d].key
        /\ ~call[c].hit /\ ~call[c].lost
        /\ call[d].hit

\* C2: N concurrent resolveOrCreate calls for one natural key all return one
\* id, the counter advances by exactly one per id minted (no double
\* increment), and a caller that lost the conditional write has the winner's
\* id and no error.
C2_ConcurrentOneWinner ==
    /\ \A c, d \in Callers :
          (Resolved(c) /\ Resolved(d) /\ call[c].ns = call[d].ns
              /\ call[c].key = call[d].key) => call[c].ret = call[d].ret
    /\ \A ns \in Namespaces : counter[ns] = Cardinality(MintsIn(ns))
    /\ \A c \in Callers :
          (Resolved(c) /\ call[c].lost) =>
              /\ ~call[c].err
              /\ call[c].ret # None
              /\ call[c].ret = keyIndex[call[c].ns][call[c].key]

\* All callers raced for one key: one won, the others lost the write.
C2_Witness ==
    \E ns \in Namespaces, k \in NaturalKeys :
        /\ \A c \in Callers : Resolved(c) /\ call[c].ns = ns /\ call[c].key = k
        /\ Cardinality({c \in Callers : call[c].lost}) = NumCallers - 1
        /\ \A c \in Callers : ~call[c].hit

\* C3: no two allocations in one namespace return the same value, whether
\* made by allocate or by the minting branch of resolveOrCreate.
C3_AllocateUnique ==
    /\ \A i, j \in DOMAIN allocLog :
          (i # j /\ allocLog[i][1] = allocLog[j][1]) => allocLog[i][3] # allocLog[j][3]
    /\ \A c, d \in Callers :
          (c # d /\ Allocated(c) /\ Allocated(d) /\ call[c].ns = call[d].ns)
              => call[c].ret # call[d].ret

\* Every caller has allocated in the same namespace.
C3_Witness ==
    \E ns \in Namespaces : \A c \in Callers : Allocated(c) /\ call[c].ns = ns

\* ------------------------------------------------------------------------
\* Claims on the S3 trigger
\* ------------------------------------------------------------------------

\* Nothing of the job is pending: every event handled, every run finished.
Quiescent(so) ==
    /\ \A k \in ObjectKeys : k[1] = so => events[k] = 0
    /\ \A run \in Runs : run.resume[1] = so =>
          /\ queue[run] = 0
          /\ \A v \in 0..MaxJdUploads : inflight[<<run, v>>] = 0

\* The AnalysisResult set of the uploaded resumes against the stored JD.
ExpectedResults(so) ==
    [r \in Resumes |-> IF r \in bucketResumes[so]
                       THEN Analyse(ResumeKey(so, r), bucketJd[so])
                       ELSE NoResult]

C6_BatchModeAllResumes ==
    last.kind = "jd" =>
        last.enqueued = OneRunEach({Run(k, last.key) : k \in last.listed})

\* A re-uploaded job description was handled while a resume of the job that
\* had been analysed against the first one was stored, and a run was
\* enqueued for it again.
C6_Witness ==
    /\ last.kind = "jd"
    /\ bucketJd[last.key[1]] = 2
    /\ events[last.key] = 0
    /\ \E r \in Resumes :
          /\ ResumeKey(last.key[1], r) \in last.listed
          /\ result[last.key[1]][r] = Analyse(ResumeKey(last.key[1], r), 1)
          /\ last.enqueued[Run(ResumeKey(last.key[1], r), last.key)] = 1

\* ------------------------------------------------------------------------
\* Pipeline failure handling (SpecPipe)
\* ------------------------------------------------------------------------

C8_TransientRetriedThenFailed ==
    /\ \A k \in StageIx : calls[k] <= MaxRetries + 1
    /\ \A k \in StageIx : unit.output[k] \in {NoOutput, StageOutput(k)}
    /\ (unit.failedAt # 0 /\ unit.lastError \in TransientErrors) =>
          /\ calls[unit.failedAt] = MaxRetries + 1
          /\ unit.state = "FAILED"
          /\ unit.lastError = lastResponse
          /\ unit.output[unit.failedAt] = NoOutput

\* The second stage has timed out and then returned malformed JSON until
\* its retries ran out.
C8_Witness ==
    /\ unit.state = "FAILED"
    /\ unit.failedAt = 2
    /\ unit.lastError = "malformed_json"
    /\ calls[2] = MaxRetries + 1
    /\ calls[1] = 2

SeesNoResult(e) ==
    /\ e.overallScore = 0 /\ e.coreScore = 0
    /\ e.domainScore = 0 /\ e.softScore = 0
    /\ e.coreSkills = << >> /\ e.domainSkills = << >>
    /\ e.evidenceSnippets = << >> /\ e.gaps = << >>
    /\ e.recommendation = ""

SeesCompleteResult(e, v) ==
    LET d == AnalysisDocument(e.id, v)
    IN /\ e.overallScore = d.candidate.overallScore
       /\ e.coreScore = d.candidate.coreScore
       /\ e.domainScore = d.candidate.domainScore
       /\ e.softScore = d.candidate.softScore
       /\ e.coreSkills = d.coreSkills /\ e.domainSkills = d.domainSkills
       /\ e.evidenceSnippets = d.evidenceSnippets /\ e.gaps = d.gaps
       /\ e.recommendation = d.recommendation

SeesAllOrNothing(e) ==
    e.id \in CandidateIds =>
        /\ \/ SeesNoResult(e)
           \/ \E v \in 1..runsDone[e.id] : SeesCompleteResult(e, v)
        /\ (e.gaps # << >> \/ e.coreSkills # << >> \/ e.domainSkills # << >>
              \/ e.recommendation # "")
             => (e.overallScore # 0 /\ e.coreScore # 0
                   /\ e.domainScore # 0 /\ e.softScore # 0)

\* C10: at any point of a request interleaved with the pipeline's writes,
\* the reader has for a candidate either no AnalysisResult or the complete
\* one of some finished run; gaps, skills or a recommendation never appear
\* without the scores.
C10_ReaderSeesAllOrNothing ==
    /\ \A i \in 1..Len(reader.candidates) : SeesAllOrNothing(reader.candidates[i])
    /\ \A i \in 1..Len(response) : SeesAllOrNothing(response[i])

\* In one request: a candidate's result of run 1 was read after which run 2
\* replaced the object, and another candidate whose analysis is stored was
\* read as having none because the fetch failed.
C10_Witness ==
    /\ reader.pc = "rows"
    /\ Len(reader.candidates) = 2
    /\ SeesCompleteResult(reader.candidates[1], 1)
    /\ runsDone[reader.candidates[1].id] = 2
    /\ SeesNoResult(reader.candidates[2])
    /\ rows[reader.candidates[2].id].analysisS3Key # NoUri

\* ------------------------------------------------------------------------
\* Session memory (SpecMemory)
\* ------------------------------------------------------------------------

\* C11: with k turns in session S when a request injects context, the
\* request gets exactly the min(k, maxInjectedTurns) most recent turns of S,
\* oldest first.
C11_InjectsMostRecentTurns ==
    \A r \in ChatRequests :
        chat[r].pc \in Roles =>
            LET k == chat[r].sizeAtInject
                got == chat[r].injected
                stored == sessions[chat[r].sessionId]
            IN /\ Len(got) = Min(k, maxInjectedTurns)
               /\ \A i \in 1..Len(got) : got[i] = stored[k - Len(got) + i]

\* A request has injected from a session that held more turns than are
\* surfaced.
C11_Witness ==
    \E r \in ChatRequests :
        /\ chat[r].pc = "user"
        /\ chat[r].sizeAtInject = maxInjectedTurns + 1
        /\ Len(chat[r].injected) = maxInjectedTurns
        /\ chat[r].injected[1] = Turn("agent", 1)

\* C12: every step leaves each session's earlier turns in place and in
\* order, adding at most one turn at the end.
C12_AppendOnly ==
    [][\A sid \in DOMAIN sessions :
          /\ sid \in DOMAIN sessions'
          /\ Len(sessions'[sid]) \in {Len(sessions[sid]), Len(sessions[sid]) + 1}
          /\ SubSeq(sessions'[sid], 1, Len(sessions[sid])) = sessions[sid]]_vars

\* A session that has grown past the injected window with every turn of
\* its chats in place.
C12_Witness ==
    \E sid \in DOMAIN sessions :
        /\ Len(sessions[sid]) = 2 * MaxChats
        /\ \A n \in 1..MaxChats :
              /\ sessions[sid][2 * n - 1] = Turn("user", n)
              /\ sessions[sid][2 * n] = Turn("agent", n)

\* C13: every turn that a request has passed to add_turns is stored in its
\* session, exactly once, whatever the interleaving with other requests.
C13_NoAppendLost ==
    \A a \in added :
        Cardinality({i \in 1..Len(sessions[a[1]]) : sessions[a[1]][i] = a[2]}) = 1

\* Two requests in the same session at once, their turns interleaved.
C13_Witness ==
    /\ chat["r1"].pc = "agent"
    /\ chat["r2"].pc = "agent"
    /\ chat["r1"].sessionId = chat["r2"].sessionId
    /\ chat["r1"].loaded = << >>
    /\ chat["r2"].loaded = << >>
    /\ Len(sessions[chat["r1"].sessionId]) = 2

CreatedAs(e) == CHOOSE i \in 1..Len(ranked.scores) : RankId(i) = e.id

\* C15: the candidates come back ordered by overallScore descending,
\* candidates of equal score in creation order; scores [70, 90, 90, 50]
\* come back as [c2, c3, c1, c4].
C15_RankedDescendingStable ==
    (ranked.asked /\ Len(ranked.scores) > 0) =>
        LET out == ranked.candidates
        IN /\ Len(out) = Len(ranked.scores)
           /\ \A i \in 1..Len(ranked.scores) :
                 \E j \in 1..Len(out) :
                     /\ out[j].id = RankId(i)
                     /\ out[j].overallScore = ranked.scores[i]
           /\ \A i \in 1..Len(out), j \in 1..Len(out) :
                 i < j =>
                     \/ out[i].overallScore > out[j].overallScore
                     \/ /\ out[i].overallScore = out[j].overallScore
                        /\ CreatedAs(out[i]) < CreatedAs(out[j])
           /\ ranked.scores = <<70, 90, 90, 50>> =>
                 [i \in 1..4 |-> out[i].id]
                     = <<RankId(2), RankId(3), RankId(1), RankId(4)>>

\* The request over candidates with scores [70, 90, 90, 50] has answered.
C15_Witness ==
    /\ ranked.asked
    /\ ranked.scores = <<70, 90, 90, 50>>
    /\ ranked.candidates[1].id = RankId(2)
    /\ ranked.candidates[2].id = RankId(3)
    /\ ranked.candidates[3].id = RankId(1)

\* ------------------------------------------------------------------------
\* Missing or unreadable analysis (SpecRead)
\* ------------------------------------------------------------------------

\* The entry of candidate cid with every score 0 and every array empty.
IsZeroed(e, cid) ==
    /\ e.id = cid
    /\ e.overallScore = 0 /\ e.coreScore = 0
    /\ e.domainScore = 0 /\ e.softScore = 0
    /\ e.coreSkills = << >> /\ e.domainSkills = << >>
    /\ e.evidenceSnippets = << >> /\ e.gaps = << >>

\* A fetch that gave no whole text.
Unreadable(fetched) == fetched.threw \/ ~fetched.body.closed

\* C16: a candidate whose analysis is missing or cannot be read never
\* fails the request: whatever the fetch gives, the entry made for the row
\* has all four scores 0 and empty skill, evidence and gap arrays, and the
\* request goes on to the next row or to its answer.
C16_MissingAnalysisNeverFails ==
    /\ \A cid \in CandidateIds :
          rows[cid].present =>
              LET row == rows[cid]
                  s3Uri == S3UriOf(row)
              IN IF s3Uri = NoUri
                 THEN IsZeroed(ZeroedCandidate(row), cid)
                 ELSE \A fetched \in FetchOutcomes(parseS3Uri(s3Uri).key) :
                          Unreadable(fetched) =>
                              IsZeroed(MapCandidate(row, FetchAnalysis(fetched)), cid)
    /\ \A i \in 1..Len(reader.candidates) :
          runsDone[reader.candidates[i].id] = 0 =>
              IsZeroed(reader.candidates[i], reader.candidates[i].id)
    /\ reader.pc = "rows" => (ENABLED ReaderRow \/ ENABLED ReaderRespond)

\* A request has answered with two candidates: one populated, and one whose
\* stored analysis could not be read, zeroed and ranked last.
C16_Witness ==
    /\ reader.pc = "idle"
    /\ Len(response) = 2
    /\ SeesCompleteResult(response[1], 1)
    /\ IsZeroed(response[2], response[2].id)
    /\ response[2].id \in CandidateIds
    /\ rows[response[2].id].analysisS3Key # NoUri
    /\ runsDone[response[2].id] = 1

\* ------------------------------------------------------------------------
\* Opportunity list (SpecList)
\* ------------------------------------------------------------------------

\* C17 as stated: an answer is the demo dataset when OPPORTUNITIES_TABLE was
\* not configured, and when it was configured and the table was read, the
\* answer is the summaries of the items that the table held.
C17_DemoOnlyWhenUnconfigured ==
    listed.asked =>
        /\ listed.env = "" => listed.body = MOCK_OPPORTUNITIES
        /\ (listed.env # "" /\ listed.exists /\ ~listed.threw)
              => listed.body = JobSummaries(listed.items)

\* ------------------------------------------------------------------------
\* C18: after an upload, every polling loop the client starts stops after a
\* bounded number of attempts: checkFn is called at most maxAttempts times
\* and then onTimeout ends the loop, also when the expected record never
\* appears.  Stated for both loops of the Analysis page: neither makes more
\* than maxAttempts requests for one upload, and once onTimeout has run no
\* loop is left polling.
\* ------------------------------------------------------------------------
StillPolling ==
    \/ polling.awaiting > 0
    \/ polling.timer
    \/ polling.stray > 0
    \/ pendingResume.pending

C18_PollingStopsAfterMaxAttempts ==
    /\ polling.checks <= maxAttempts
    /\ pendingResume.ticks <= maxAttempts
    /\ polling.timeouts > 0 => ~StillPolling

\* ------------------------------------------------------------------------
\* C19: when the backing store is unavailable, an allocation returns an
\* error without allocating an id or changing a counter, and the triggering
\* event is left to be retried by the caller; it is never dropped silently.
\* Every step taken while the store is down leaves the counters, the
\* natural-key index and the ids minted as they were; a call that had a
\* request for the store then ends with the error flag set and no id, still
\* holding its event; and a failed call changes only by the redelivery of
\* that same event.
\* ------------------------------------------------------------------------
SameEvent(before, after) ==
    /\ after.op = before.op
    /\ after.ns = before.ns
    /\ after.key = before.key

C19_UnavailableStoreFailsFast ==
    [][/\ ~storeUp =>
            /\ counter' = counter
            /\ keyIndex' = keyIndex
            /\ allocLog' = allocLog
            /\ \A c \in Callers :
                   (call[c].pc \in StoreSteps /\ call'[c] # call[c]) =>
                       /\ call'[c].pc = "failed"
                       /\ call'[c].err
                       /\ call'[c].ret = None
                       /\ SameEvent(call[c], call'[c])
       /\ \A c \in Callers :
              (call[c].pc = "failed" /\ call'[c] # call[c]) =>
                  /\ call'[c].pc = FirstStep(call[c].op)
                  /\ SameEvent(call[c], call'[c])]_vars

\* A call failed during an outage, its event was delivered again after the
\* store came back, and it then got its id.
C19_Witness ==
    /\ \E c \in Callers : call[c].pc = "failed" /\ call[c].err
    /\ \E c \in Callers : call[c].pc = "done" /\ call[c].ret # None
    /\ ~storeUp

\* ------------------------------------------------------------------------
\* C20: if the pipeline run for an uploaded resume completes, a client that
\* keeps polling getJobAnalysis eventually sees that candidate with its
\* analysis and scores populated; until then the candidate appears only with
\* zero or absent scores.  The run is complete once the candidate's row
\* points at analysis.json; the client sees what the answers hold.
\* ------------------------------------------------------------------------
RunCompleted(cid) == rows[cid].analysisS3Key # NoUri

SeesPopulated(cid) ==
    \E i \in 1..Len(response) :
        /\ response[i].id = cid
        /\ \E v \in 1..runsDone[cid] : SeesCompleteResult(response[i], v)

SeesOnlyZeroes(cid) ==
    \A i \in 1..Len(response) :
        response[i].id = cid => SeesNoResult(response[i])

C20_CompletedRunEventuallySeen ==
    /\ [](\A cid \in CandidateIds : ~RunCompleted(cid) => SeesOnlyZeroes(cid))
    /\ \A cid \in CandidateIds : RunCompleted(cid) ~> SeesPopulated(cid)

\* One answer shows a candidate whose run has completed with its scores and
\* a candidate still pending with zeroes.
C20_Witness ==
    \E cid, other \in CandidateIds :
        /\ RunCompleted(cid) /\ SeesPopulated(cid)
        /\ rows[other].present /\ ~RunCompleted(other)
        /\ \E i \in 1..Len(response) :
               response[i].id = other /\ SeesNoResult(response[i])

\* ------------------------------------------------------------------------
\* C21: when several pipeline runs for the same (jobId, candidateId) finish,
\* in any order, exactly one AnalysisResult remains for that entity, the one
\* written last: the final write replaces the earlier result and never adds
\* a second one.
\* ------------------------------------------------------------------------
C21_LastWriteWins ==
    \A cid \in ResultEntities :
        runsDoneOf[cid] # {} =>
            /\ Cardinality(ResultsOf(OpportunityId, cid)) = 1
            /\ \A o \in ResultsOf(OpportunityId, cid) :
                   o.body = AnalysisDocument(cid, lastWrite[cid])

\* Three runs of one candidate have finished, the first one started last.
C21_Witness ==
    \E cid \in ResultEntities :
        /\ Cardinality(runsDoneOf[cid]) >= 3
        /\ lastWrite[cid] = 1

\* ------------------------------------------------------------------------
\* C22: a unit of work moves only forward through RECEIVED, PARSED,
\* REQUIREMENTS_EXTRACTED, EVALUATED, GAPS_IDENTIFIED, RATED, COMPLETE, one
\* stage at a time, or to FAILED from any stage; it never skips a stage,
\* never goes back, and never leaves COMPLETE or FAILED.
\* ------------------------------------------------------------------------
UnitStates == Markers \o <<"COMPLETE">>
PositionOf(state) == CHOOSE i \in 1..Len(UnitStates) : UnitStates[i] = state

C22_OneStageForwardOrFailed ==
    [][unit'.state # unit.state =>
          /\ unit.state \notin {"COMPLETE", "FAILED"}
          /\ \/ unit'.state = "FAILED"
             \/ /\ \E i \in 1..Len(UnitStates) : UnitStates[i] = unit'.state
                /\ PositionOf(unit'.state) = PositionOf(unit.state) + 1]_vars

\* A unit has gone through every stage to COMPLETE with a retried call on
\* the way.
C22_Witness ==
    /\ unit.state = "COMPLETE"
    /\ \A k \in StageIx : unit.output[k] = StageOutput(k)
    /\ \E k \in StageIx : calls[k] > 1

\* ------------------------------------------------------------------------
\* C23: whenever a unit of work reaches COMPLETE, its AnalysisResult has
\* been written and the rollup fields of the job's record (candidate count,
\* top score) are updated to match it, at once or eventually through the
\* compensating retry; the rollups never stay permanently out of step with
\* the stored results.
\* ------------------------------------------------------------------------
RollupsMatch ==
    /\ JobSummary(jobItem).candidatesCount = StoredCount
    /\ JobSummary(jobItem).topScore = StoredTop

C23_RollupsFollowResults == (~RollupsMatch) ~> RollupsMatch

\* ------------------------------------------------------------------------
\* C24: classify decides the mode from the key's path shape alone; every
\* key the job-description upload endpoint hands out classifies as JOB_ROOT,
\* and every key the resume upload endpoint hands out classifies as
\* CANDIDATE for the opportunityId that was requested.
\* ------------------------------------------------------------------------
C24_HandedOutKeysClassify ==
    presigned.status = 200 =>
        /\ presigned.endpoint = "upload-jd" =>
               classify(presigned.key).mode = "JOB_ROOT"
        /\ presigned.endpoint = "upload-url" =>
               /\ classify(presigned.key).mode = "CANDIDATE"
               /\ classify(presigned.key).jobId = presigned.opportunityId
               /\ classify(presigned.key).candidateId = << >>

\* ------------------------------------------------------------------------
\* C25: a unit of work that fails, or a poll that runs out of attempts,
\* never puts the client into an error state: the failure of the unit
\* changes nothing on the client, no poll of a failed unit reports success,
\* and the step that ends the polling after maxAttempts leaves the error
\* as it was and sets the informational notice.
\* ------------------------------------------------------------------------
ResumePollTimesOut ==
    /\ upl.processing /\ upl.attempts >= maxAttempts
    /\ upl'.putting = upl.putting /\ upl'.started = upl.started
    /\ ~upl'.processing

JdPollTimesOut ==
    /\ jdPage.processingJd /\ jdPage.attempts >= maxAttempts
    /\ ~jdPage'.processingJd

C30_OneCycleAtATime ==
    [][(upl.uploading \/ upl.processing) =>
           /\ upl'.started = upl.started
           /\ upl.processing => (upl'.processing \/ ~upl'.uploading)]_vars

\* ------------------------------------------------------------------------
\* C26: every overallScore, coreScore, domainScore and softScore that the
\* read model returns for a candidate is a number from 0 to 100, whatever
\* the rating stage has written.
\* ------------------------------------------------------------------------
C26_ReturnedScoresInRange ==
    \A i \in DOMAIN scoreResponse :
        /\ scoreResponse[i].overallScore \in 0..100
        /\ scoreResponse[i].coreScore \in 0..100
        /\ scoreResponse[i].domainScore \in 0..100
        /\ scoreResponse[i].softScore \in 0..100

\* ------------------------------------------------------------------------
\* C27: in usePolling, within one period in which enabled is true at most
\* one of onSuccess and onTimeout is called, at most once; and once enabled
\* has turned false, the inputs have changed or the component has
\* unmounted, the chain of the effect torn down calls checkFn no more and
\* fires no callback, also when its check was in flight at that moment.
\* ------------------------------------------------------------------------
C27_TornDownChainIsSilent ==
    /\ hook.calls <= 1
    /\ hook.lateChecks = 0
    /\ hook.lateCalls = 0

\* ------------------------------------------------------------------------
\* C28: after any sequence of addFiles and removeItem in BulkUpload the
\* uploadName values of the items in the list are pairwise distinct, also
\* when added files share a file name or two addFiles calls come before a
\* render.
\* ------------------------------------------------------------------------
C28_UploadNamesDistinct ==
    \A i, j \in DOMAIN bulkItems.list :
        i # j => bulkItems.list[i].uploadName # bulkItems.list[j].uploadName

\* ------------------------------------------------------------------------
\* C29: every candidate the analysis of a job returns has a candidate row
\* under that job; a job with no candidate rows gets an empty list, never
\* the candidates of another job or of the demo data.
\* ------------------------------------------------------------------------
C29_ReturnedCandidatesHaveRows ==
    \A i \in DOMAIN response :
        /\ response[i].id \in CandidateIds
        /\ rows[response[i].id].present

====
